---- MODULE Spec2Model ----
(***************************************************************************)
(* Model of the Zion coding agent core: the file tools                     *)
(* (tools/filesystem_tools.py), the two Version Store backends             *)
(* (build/lib/core/version_manager.py, core/git_version_manager.py), the   *)
(* response interpreter and the control loop (core/orchestrator.py).       *)
(*                                                                         *)
(* Text (file contents, tool results, model responses) is a sequence of    *)
(* tokens; a token is one lexeme of the text (a word, a quote, a brace,    *)
(* "NL" for a newline, "SP" for a blank).                                  *)
(***************************************************************************)
EXTENDS Integers, Sequences, FiniteSets, TLC

VARIABLES
    files,      \* the workspace: path -> [ex, data]
    vm,         \* the Version Store (both backends' fields) and its clock
    obs,        \* record of the last file-level operation and its arguments
                \* (observation only)
    task,       \* observation of the task opened by set_commit_message
    calls,      \* number of tool calls made so far
    status,        \* AgentOrchestrator.status
    pending,       \* AgentOrchestrator.pending_tool_call
    tool_history,  \* AgentOrchestrator.tool_history, the ring of call ids
    memory,        \* Memory.messages, the conversation
    focused_files, \* ContextManager.focused_files
    message,       \* the instruction run() was called with
    pc,            \* where run() stands
    loop,          \* which of the two loops of run() is executing (1 or 2)
    iteration,     \* run()'s local iteration counter
    attempt,       \* step()'s local attempt counter
    response,      \* what the last step() returned: a response name or "None"
    json_bound,    \* run()'s local name json is bound (its import has run)
    messages,      \* step()'s local list messages: the system messages, the
                   \* history and the corrective messages of this step()
    choices,       \* environment choices made so far
    last_reply,    \* the model's last response
    policy,        \* the operator's last answer to the approval prompt
    nsteps,        \* observation: step() calls made by this run()
    gateway_calls, \* observation: llm.chat calls made by the current step(),
                   \* counted up to max_retries + 1
    ev,            \* observation: the last approve_tool / reject_tool call
    owed,          \* observation: a third identical call was executed and the
                   \* Gateway has not been called since
    warned,        \* observation: corrective Turns appended since that call
    sample,        \* the response text given to parse_response
    interpreted,   \* what parse_response left as pending invocation
    shell,         \* RunCommandTool._run_pty in progress and its child process
    learner        \* LearningOrchestrator: the learner, the call of its run()
                   \* and the observation it holds

fsvars == <<files, vm, obs, task, calls>>
ctlvars == <<status, pending, tool_history, memory, focused_files, message>>
runvars == <<pc, loop, iteration, attempt, response, json_bound, messages>>
envvars == <<choices, last_reply, policy>>
histvars == <<nsteps, gateway_calls, ev, owed, warned>>
parsevars == <<sample, interpreted>>
shellvars == <<shell>>
learnvars == <<learner>>
vars == <<fsvars, ctlvars, runvars, envvars, histvars, parsevars, shellvars,
         learnvars>>

----------------------------------------------------------------------------
(* Bounds                                                                  *)

MaxFileLen == 8      \* longest file content explored, in tokens
MaxEntries == 2      \* most backups (ledger entries / commits) explored
MaxClock   == 2      \* seconds the wall clock may advance
MaxCalls   == 2      \* most tool calls explored in one session
MaxTasks   == 2      \* most tasks opened in one session
MaxChoices == 2      \* environment choices (responses, answers) that are free;
                     \* afterwards the model and the operator repeat their last,
                     \* the model changing once more when first warned of a
                     \* file loop

----------------------------------------------------------------------------
(* Text helpers (Python str / list semantics on token sequences)           *)

\* F applied to the value v, v being computed once
Bind(v, F(_)) == CHOOSE r \in {F(x) : x \in {v}} : TRUE

\* the whitespace str.strip() removes
WS == {"SP", "NL", "TAB", "CR"}

Min(a, b) == IF a < b THEN a ELSE b

\* the least element of a set of positions, 0 for the empty set
LeastOr0(S) == IF S = {} THEN 0 ELSE CHOOSE k \in S : \A j \in S : k <= j
Max(a, b) == IF a > b THEN a ELSE b

\* s[a:b] with Python's 0-based, negative-aware, clamped slice bounds
PySlice(s, a, b) ==
    LET n  == Len(s)
        lo == IF a < 0 THEN Max(n + a, 0) ELSE Min(a, n)
        hi == IF b < 0 THEN Max(n + b, 0) ELSE Min(b, n)
    IN  IF lo >= hi THEN <<>> ELSE SubSeq(s, lo + 1, hi)

StartsWith(s, t) == Len(t) <= Len(s) /\ SubSeq(s, 1, Len(t)) = t
EndsWithNL(s)    == Len(s) > 0 /\ s[Len(s)] = "NL"

MatchAt(s, t, i) ==
    /\ i >= 1
    /\ i + Len(t) - 1 <= Len(s)
    /\ \A k \in 1..Len(t) : s[i + k - 1] = t[k]

\* `t in s`
Contains(s, t) == \E i \in 1..(Len(s) + 1) : MatchAt(s, t, i)

\* s.count(t): non-overlapping occurrences, scanning left to right
RECURSIVE CountFrom(_, _, _)
CountFrom(s, t, i) ==
    IF i + Len(t) - 1 > Len(s) THEN 0
    ELSE IF MatchAt(s, t, i) THEN 1 + CountFrom(s, t, i + Len(t))
    ELSE CountFrom(s, t, i + 1)
Count(s, t) == CountFrom(s, t, 1)

\* s.replace(t, r): every non-overlapping occurrence, left to right
RECURSIVE ReplaceFrom(_, _, _, _)
ReplaceFrom(s, t, r, i) ==
    IF i > Len(s) THEN <<>>
    ELSE IF MatchAt(s, t, i) THEN r \o ReplaceFrom(s, t, r, i + Len(t))
    ELSE <<s[i]>> \o ReplaceFrom(s, t, r, i + 1)
Replace(s, t, r) == ReplaceFrom(s, t, r, 1)

\* s.strip()
RECURSIVE LStrip(_)
LStrip(s) == IF s # <<>> /\ s[1] \in WS THEN LStrip(Tail(s)) ELSE s
RECURSIVE RStrip(_)
RStrip(s) ==
    IF s # <<>> /\ s[Len(s)] \in WS THEN RStrip(SubSeq(s, 1, Len(s) - 1)) ELSE s
Strip(s) == LStrip(RStrip(s))

\* position of the first "NL" at or after i, 0 when there is none
RECURSIVE FindNL(_, _)
FindNL(s, i) ==
    IF i > Len(s) THEN 0 ELSE IF s[i] = "NL" THEN i ELSE FindNL(s, i + 1)

\* f.readlines(): the lines, each keeping its newline
RECURSIVE ReadLines(_)
ReadLines(text) ==
    Bind(text, LAMBDA s :
        IF s = <<>> THEN <<>>
        ELSE Bind(FindNL(s, 1), LAMBDA k :
                 IF k = 0 THEN <<s>>
                 ELSE <<SubSeq(s, 1, k)>> \o ReadLines(SubSeq(s, k + 1, Len(s)))))

\* s.split('\n'): the pieces between newlines, newlines dropped
RECURSIVE SplitNL(_)
SplitNL(text) ==
    Bind(text, LAMBDA s :
        Bind(FindNL(s, 1), LAMBDA k :
            IF k = 0 THEN <<s>>
            ELSE <<SubSeq(s, 1, k - 1)>> \o SplitNL(SubSeq(s, k + 1, Len(s)))))

\* "".join(lines) / f.writelines(lines)
RECURSIVE JoinLines(_)
JoinLines(ls) == IF ls = <<>> THEN <<>> ELSE Head(ls) \o JoinLines(Tail(ls))

\* lines.insert(i, x) with a 0-based index already inside 0..len
InsertAt(ls, i, x) == SubSeq(ls, 1, i) \o <<x>> \o SubSeq(ls, i + 1, Len(ls))

\* lines[a:b] = xs  (Python slice assignment; an empty slice inserts at a)
SliceAssign(ls, a, b, xs) ==
    LET n  == Len(ls)
        lo == IF a < 0 THEN Max(n + a, 0) ELSE Min(a, n)
        h0 == IF b < 0 THEN Max(n + b, 0) ELSE Min(b, n)
        hi == Max(lo, h0)
    IN  SubSeq(ls, 1, lo) \o xs \o SubSeq(ls, hi + 1, n)

SeqToSet(s) == {s[i] : i \in 1..Len(s)}

----------------------------------------------------------------------------
(* The workspace                                                           *)

Paths     == {"a.txt", "d/b.txt"}       \* a bare file name, a path in a directory
PathOrder == <<"a.txt", "d/b.txt">>     \* the paths in lexicographic order
HasDir(p) == p = "d/b.txt"              \* os.path.dirname(p) is not ''

NoFile     == [ex |-> FALSE, data |-> <<>>]
FileOf(c)  == [ex |-> TRUE, data |-> c]
PutFile(f, p, c) == [f EXCEPT ![p] = FileOf(c)]

Messages == {"m1", "m2"}                \* operator instructions

----------------------------------------------------------------------------
(* Version Store: flat-file backend (build/lib/core/version_manager.py)    *)

FlatBackupFile(f, v, p, action, io) ==
    IF ~f[p].ex THEN [vm |-> v, ref |-> 0]
    ELSE IF io = "backup_fails" THEN [vm |-> v, ref |-> 0]
    ELSE LET entry == [id           |-> Len(v.history),
                       task_id      |-> v.current_task_id,
                       action       |-> action,
                       file_path    |-> p,
                       data         |-> f[p].data,
                       message      |-> IF v.current_message = ""
                                        THEN "No message"
                                        ELSE v.current_message]
         IN  [vm  |-> [v EXCEPT !.history = Append(@, entry)],
              ref |-> Len(v.history) + 1]

\* shutil.copy2(backup_path, file_path) for the entries es, first to last
RECURSIVE FlatCopyBack(_, _)
FlatCopyBack(f, es) ==
    IF es = <<>> THEN f
    ELSE FlatCopyBack(PutFile(f, Head(es).file_path, Head(es).data), Tail(es))

Reverse(s) == [i \in 1..Len(s) |-> s[Len(s) + 1 - i]]

FlatUndoTask(f, v) ==
    IF v.history = <<>> THEN [files |-> f, vm |-> v, n |-> 0]
    ELSE LET last == v.history[Len(v.history)]
             tid  == last.task_id
         IN  IF tid = 0
             THEN [files |-> FlatCopyBack(f, <<last>>), vm |-> v, n |-> 1]
             ELSE LET es == SelectSeq(v.history, LAMBDA e : e.task_id = tid)
                  IN  [files |-> FlatCopyBack(f, Reverse(es)),
                       vm    |-> v,
                       n     |-> Len(es)]

----------------------------------------------------------------------------
(* Version Store: git backend (core/git_version_manager.py)                *)
(* A commit is [tree, msg, grp, names]: the tracked content, the subject's *)
(* action, the text after " - " in the subject (the task group id) and the *)
(* paths `git log --name-only` lists for it.                               *)

GitHead(v) == v.commits[Len(v.commits)]

GitInitCommit ==
    [tree |-> [p \in Paths |-> NoFile], msg |-> "Initial commit",
     grp |-> <<"Initial commit by Zion Agent">>, names |-> <<".gitignore">>]

\* `git add` refuses a path the workspace's .gitignore names (v.ignored) and
\* `git status --porcelain` prints nothing for it
GitBackupFile(f, v, p, action, io) ==
    IF ~f[p].ex THEN [vm |-> v, ref |-> 0]
    ELSE LET v1 == [v EXCEPT
                      !.task_files = IF p \in SeqToSet(@) THEN @ ELSE Append(@, p),
                      !.index      = IF p \in v.ignored THEN @
                                     ELSE [@ EXCEPT ![p] = f[p]]]
             head == GitHead(v).tree
         IN  IF v1.index[p] = head[p]
             THEN [vm |-> v1, ref |-> Len(v.commits)]
             ELSE IF io = "backup_fails" THEN [vm |-> v1, ref |-> 0]
             ELSE LET c == [tree  |-> v1.index,
                            msg   |-> action,
                            grp   |-> IF v.current_message = ""
                                      THEN <<"Backup:", action, p>>
                                      ELSE <<v.current_message>>,
                            names |-> SelectSeq(PathOrder,
                                        LAMBDA q : v1.index[q] # head[q])]
                  IN  [vm  |-> [v1 EXCEPT !.commits = Append(@, c)],
                       ref |-> Len(v.commits) + 1]

\* git checkout <commit> -- <path>: working file and index take the commit's
\* version; a path the commit does not hold is an error git reports by its
\* exit status only, which _run_git(check=False) ignores
GitCheckout(st, c, p) ==
    IF p \in Paths /\ st.vm.commits[c].tree[p].ex
    THEN [files |-> [st.files EXCEPT ![p] = st.vm.commits[c].tree[p]],
          vm    |-> [st.vm EXCEPT !.index = [@ EXCEPT ![p] = st.vm.commits[c].tree[p]]]]
    ELSE st

\* the entries of commits lo..hi, oldest first; within one commit the listed
\* names come out reversed (the whole newest-first list is reversed)
RECURSIVE GitEntriesFrom(_, _, _)
GitEntriesFrom(v, lo, hi) ==
    IF lo > hi THEN <<>>
    ELSE IF lo = hi
    THEN LET c  == v.commits[lo]
             ns == Reverse(c.names)
         IN  [i \in 1..Len(ns) |->
                 [commit_hash |-> lo, file_path |-> ns[i],
                  message |-> c.msg, task_group_id |-> c.grp]]
    ELSE LET mid == (lo + hi) \div 2
         IN  GitEntriesFrom(v, lo, mid) \o GitEntriesFrom(v, mid + 1, hi)

\* _get_history_entries(limit): the last `limit` commits, ids 0..N-1
GitHistoryEntries(v, limit) ==
    LET n  == Len(v.commits)
        es == GitEntriesFrom(v, Max(1, n - limit + 1), n)
    IN  [i \in 1..Len(es) |->
            [id |-> i - 1, commit_hash |-> es[i].commit_hash,
             file_path |-> es[i].file_path, message |-> es[i].message,
             task_group_id |-> es[i].task_group_id]]

RECURSIVE GitCheckoutHeadAll(_, _)
GitCheckoutHeadAll(st, ps) ==
    IF ps = <<>> THEN st
    ELSE GitCheckoutHeadAll(GitCheckout(st, Len(st.vm.commits), Head(ps)), Tail(ps))

RECURSIVE GitCheckoutEntries(_, _)
GitCheckoutEntries(st, es) ==
    IF es = <<>> THEN st
    ELSE GitCheckoutEntries(GitCheckout(st, Head(es).commit_hash, Head(es).file_path),
                            Tail(es))

GitUndoLimit == 50

GitUndoTask(f, v) ==
    IF v.task_files # <<>>
    THEN LET st == GitCheckoutHeadAll([files |-> f, vm |-> v], Reverse(v.task_files))
         IN  [files |-> st.files,
              vm    |-> [st.vm EXCEPT !.task_files = <<>>],
              n     |-> Len(v.task_files)]
    ELSE LET history == GitHistoryEntries(v, GitUndoLimit)
         IN  IF history = <<>> THEN [files |-> f, vm |-> v, n |-> 0]
             ELSE LET grp == history[Len(history)].task_group_id
                      es  == SelectSeq(history, LAMBDA e : e.task_group_id = grp)
                      st  == GitCheckoutEntries([files |-> f, vm |-> v], Reverse(es))
                  IN  [files |-> st.files, vm |-> st.vm, n |-> Len(es)]

----------------------------------------------------------------------------
(* Version Store: restore_file and the displays, both backends             *)

StoreLimit == 100    \* entries _save_history keeps, commits restore_file reads
HistoryCount == 15   \* show_history's default count

LastN(s, n) == IF Len(s) > n THEN SubSeq(s, Len(s) - n + 1, Len(s)) ELSE s

\* self.history[index] as Python indexes a list: 0 when there is no such
\* element, else its 1-based position
PyIndex(s, index) ==
    LET i == IF index < 0 THEN Len(s) + index ELSE index
    IN  IF i < 0 \/ i >= Len(s) THEN 0 ELSE i + 1

FlatRestoreFile(f, v, index) ==
    IF v.history = <<>> \/ PyIndex(v.history, index) = 0
    THEN [files |-> f, vm |-> v, ok |-> FALSE]
    ELSE [files |-> FlatCopyBack(f, <<v.history[PyIndex(v.history, index)]>>),
          vm |-> v, ok |-> TRUE]

\* a new VersionManager on the same workspace: _load_history reads what
\* _save_history wrote at the last backup, the last StoreLimit entries
FlatReload(v) ==
    [v EXCEPT !.history = LastN(@, StoreLimit),
              !.current_message = "", !.current_task_id = 0]

\* show_history: one row per task, carrying the id of the task's first
\* entry; pos is where that entry stands in the list (0-based)
FlatShowHistory(v, count) ==
    LET firsts == SelectSeq([i \in 1..Len(v.history) |-> i],
                     LAMBDA i : \A j \in 1..(i - 1) :
                         v.history[j].task_id # v.history[i].task_id)
    IN  [k \in 1..Len(LastN(firsts, count)) |->
            [id  |-> v.history[LastN(firsts, count)[k]].id,
             key |-> LastN(firsts, count)[k] - 1]]

\* show_backup / show_diff: the list position their index resolves to, or
\* -1 for "Invalid backup index"
FlatShowBackup(v, index) ==
    IF v.history = <<>> \/ index >= Len(v.history) \/ PyIndex(v.history, index) = 0
    THEN 0 - 1
    ELSE PyIndex(v.history, index) - 1

\* the entry whose id is index among es, or none
GitEntryById(es, index) ==
    LET hit == SelectSeq(es, LAMBDA e : e.id = index)
    IN  IF hit = <<>> THEN <<>> ELSE <<hit[1]>>

GitRestoreFile(f, v, index) ==
    LET found == IF index = 0 - 1
                 THEN SubSeq(GitHistoryEntries(v, 1), 1, 1)
                 ELSE LET history == GitHistoryEntries(v, StoreLimit)
                      IN  IF index < 0 \/ index >= Len(history) THEN <<>>
                          ELSE GitEntryById(history, index)
    IN  IF found = <<>> THEN [files |-> f, vm |-> v, ok |-> FALSE]
        ELSE LET st == GitCheckout([files |-> f, vm |-> v],
                                   found[1].commit_hash, found[1].file_path)
             IN  [files |-> st.files, vm |-> st.vm, ok |-> TRUE]

\* a new GitVersionManager on the same workspace: the repository stays
GitReload(v) ==
    [v EXCEPT !.current_message = "", !.current_task_id = 0, !.task_files = <<>>]

\* show_history: the last `count` of the entries of the last 2*count
\* commits, each row with its id and the <<commit, path>> it stands for
GitShowHistory(v, count) ==
    LET display == LastN(GitHistoryEntries(v, count * 2), count)
    IN  [k \in 1..Len(display) |->
            [id  |-> display[k].id,
             key |-> <<display[k].commit_hash, display[k].file_path>>]]

\* show_backup / show_diff: the <<commit, path>> their index resolves to
GitShowBackup(v, index) ==
    LET found == GitEntryById(GitHistoryEntries(v, StoreLimit), index)
    IN  IF found = <<>> THEN <<>> ELSE <<found[1].commit_hash, found[1].file_path>>

----------------------------------------------------------------------------
(* Version Store: the interface the tools and the CLI use                  *)

set_commit_message(v, m) ==
    [v EXCEPT !.current_message = m,
              !.current_task_id = v.now,
              !.task_files      = <<>>]

backup_file(f, v, p, action, io) ==
    IF v.backend = "flat" THEN FlatBackupFile(f, v, p, action, io)
    ELSE GitBackupFile(f, v, p, action, io)

undo_task(f, v) ==
    IF v.backend = "flat" THEN FlatUndoTask(f, v) ELSE GitUndoTask(f, v)

restore_file(f, v, index) ==
    IF v.backend = "flat" THEN FlatRestoreFile(f, v, index)
    ELSE GitRestoreFile(f, v, index)

show_history(v) ==
    IF v.backend = "flat" THEN FlatShowHistory(v, HistoryCount)
    ELSE GitShowHistory(v, HistoryCount)

\* what the index given to restore_file stands for, in the terms of
\* show_history's key
RestoreResolves(v, index) ==
    IF v.backend = "flat"
    THEN (IF v.history = <<>> THEN 0 - 1 ELSE PyIndex(v.history, index) - 1)
    ELSE GitShowBackup(v, index)

show_backup(v, index) ==
    IF v.backend = "flat" THEN FlatShowBackup(v, index) ELSE GitShowBackup(v, index)

Reload(v) == IF v.backend = "flat" THEN FlatReload(v) ELSE GitReload(v)

\* what a restore from the reference backup_file returned would write to p:
\* the copy kept by entry ref, or path p as commit ref holds it
RefContent(v, ref, p) ==
    IF ref = 0 THEN NoFile
    ELSE IF v.backend = "flat"
    THEN (IF v.history[ref].file_path = p THEN FileOf(v.history[ref].data) ELSE NoFile)
    ELSE v.commits[ref].tree[p]

\* number of backups recorded so far
Recorded(v) == IF v.backend = "flat" THEN Len(v.history) ELSE Len(v.commits) - 1

\* the store holds content c for path p
StoreHolds(v, p, c) ==
    IF v.backend = "flat"
    THEN \E i \in 1..Len(v.history) :
            v.history[i].file_path = p /\ v.history[i].data = c
    ELSE \E i \in 1..Len(v.commits) : v.commits[i].tree[p] = FileOf(c)

----------------------------------------------------------------------------
(* Action Registry: the file tools (tools/filesystem_tools.py)             *)
(* A tool call yields [out, files, vm, failed, wrote]: the result string,  *)
(* the workspace and Version Store after the call, whether the action      *)
(* failed, and whether it wrote its target file.  io is what the           *)
(* environment does to the call: "ok", "backup_fails" (the copy or commit  *)
(* inside backup_file fails) or "raises" (opening the target file raises). *)

IoOutcomes == {"ok", "backup_fails", "raises"}

Get(a, k, d) == IF k \in DOMAIN a THEN a[k] ELSE d

ToolRes(out, f, v, failed, wrote) ==
    [out |-> out, files |-> f, vm |-> v, failed |-> failed, wrote |-> wrote]

\* the backup step of the three mutating tools: get_version_manager() may
\* be None, and the reference backup_file returns is not looked at
VmBackup(f, v, p, action, io) ==
    IF v.installed THEN backup_file(f, v, p, action, io).vm ELSE v

\* open(path, 'r').read(): text mode with universal newlines, "\r\n" and a
\* lone "\r" both come back as "\n"
RECURSIVE ReadText(_)
ReadText(s) ==
    IF \A i \in 1..Len(s) : s[i] # "CR" THEN s
    ELSE IF s[1] # "CR" THEN <<s[1]>> \o ReadText(Tail(s))
    ELSE IF Len(s) >= 2 /\ s[2] = "NL" THEN <<"NL">> \o ReadText(SubSeq(s, 3, Len(s)))
    ELSE <<"NL">> \o ReadText(Tail(s))

ReadFileTool(f, v, p, start_line, end_line, io) ==
    IF ~f[p].ex THEN ToolRes(<<"Error:", "File", p, "not found.">>, f, v, TRUE, FALSE)
    ELSE IF io = "raises"
    THEN ToolRes(<<"Error reading file", p>>, f, v, TRUE, FALSE)
    ELSE Bind(ReadLines(ReadText(f[p].data)), LAMBDA lines :
         LET s == IF start_line < 1 THEN 1 ELSE start_line
             e == IF end_line = -1 \/ end_line > Len(lines)
                  THEN Len(lines) ELSE end_line
         IN  ToolRes(JoinLines(PySlice(lines, s - 1, e)), f, v, FALSE, FALSE))

CommentStarts == {"<!--", "//", "#"}
PlaceholderWords == {"placeholder", "updated", "modified"}

\* the non-blank lines of the stripped content, each stripped
NonEmptyLines(content) ==
    Bind(SplitNL(Strip(content)), LAMBDA ls :
        SelectSeq([i \in 1..Len(ls) |-> Strip(ls[i])], LAMBDA l : l # <<>>))

IsPlaceholder(content) ==
    \E ne \in {NonEmptyLines(content)} :
        /\ Len(ne) < 3
        /\ \A i \in 1..Len(ne) :
              \/ ne[i][1] \in CommentStarts
              \/ \E k \in 1..Len(ne[i]) : ne[i][k] \in PlaceholderWords

WriteFileTool(f, v, p, content, io) ==
    IF content = <<>>
    THEN ToolRes(<<"Error:", "Content cannot be empty.">>, f, v, TRUE, FALSE)
    ELSE IF IsPlaceholder(content)
    THEN ToolRes(<<"VIOLATION:", "placeholder">>, f, v, TRUE, FALSE)
    ELSE LET v1 == IF f[p].ex THEN VmBackup(f, v, p, "modify", io) ELSE v
             old_content == IF f[p].ex THEN ReadText(f[p].data) ELSE <<>>
         IN  IF ~HasDir(p) \/ io = "raises"
             THEN ToolRes(<<"Error writing to file", p>>, f, v1, TRUE, FALSE)
             ELSE ToolRes(<<"Successfully",
                            IF old_content = <<>> THEN "created" ELSE "updated", p>>,
                          PutFile(f, p, content), v1, FALSE, TRUE)

EditFileTool(f, v, p, target, replacement, io) ==
    IF target = <<>> \/ Strip(target) = <<>>
    THEN ToolRes(<<"Error:", "target cannot be empty.">>, f, v, TRUE, FALSE)
    ELSE IF ~f[p].ex
    THEN ToolRes(<<"Error:", "File", p, "does not exist.">>, f, v, TRUE, FALSE)
    ELSE IF io = "raises"
    THEN ToolRes(<<"Error editing file", p>>, f, v, TRUE, FALSE)
    ELSE Bind(ReadText(f[p].data), LAMBDA content :
         IF ~Contains(content, target)
         THEN ToolRes(<<"Error:", "Target text not found in", p>>, f, v, TRUE, FALSE)
         ELSE IF Count(content, target) > 1
         THEN ToolRes(<<"Error:", "Target found", "times. Must be unique.">>,
                      f, v, TRUE, FALSE)
         ELSE ToolRes(<<"Successfully", "edited", p>>,
                      PutFile(f, p, Replace(content, target, replacement)),
                      VmBackup(f, v, p, "edit", io), FALSE, TRUE))

WithNL(c) == IF EndsWithNL(c) THEN c ELSE c \o <<"NL">>

\* index of the first line holding the marker, 0 when none does
RECURSIVE FindMarker(_, _, _)
FindMarker(lines, marker, i) ==
    IF i > Len(lines) THEN 0
    ELSE IF Contains(lines[i], marker) THEN i
    ELSE FindMarker(lines, marker, i + 1)

PatchErr(what, f, v) == ToolRes(<<"Error:", what>>, f, v, TRUE, FALSE)

\* a small number as it is printed in a result string
NumStr(n) == IF n \in 0..9 THEN <<"0","1","2","3","4","5","6","7","8","9">>[n + 1]
             ELSE "many"

PatchDone(what, f, v, p, old, new) ==
    ToolRes(<<"Success:", what, "was", NumStr(Len(old)), "now", NumStr(Len(new))>>,
            PutFile(f, p, JoinLines(new)), v, FALSE, TRUE)

PatchFileTool(f, v, p, a, io) ==
    LET operation == Get(a, "operation", "")
        content   == Get(a, "content", <<>>)
        marker    == Get(a, "marker", <<>>)
    IN
    IF operation = "" THEN PatchErr("operation argument is required.", f, v)
    ELSE IF ~f[p].ex THEN ToolRes(<<"Error:", "File", p, "not found.">>, f, v, TRUE, FALSE)
    ELSE LET v1    == VmBackup(f, v, p, "patch", io)
             lines == ReadLines(ReadText(f[p].data))
             n     == Len(lines)
         IN
         IF io = "raises" THEN ToolRes(<<"Error patching file">>, f, v1, TRUE, FALSE)
         ELSE IF operation = "insert_at_line"
         THEN LET l0 == Get(a, "line", 1)
                  l1 == IF l0 < 1 THEN 1 ELSE l0
                  l2 == IF l1 > n + 1 THEN n + 1 ELSE l1
              IN  PatchDone("Inserted at line", f, v1, p, lines,
                            InsertAt(lines, l2 - 1, WithNL(content)))
         ELSE IF operation = "replace_lines"
         THEN LET s0 == Get(a, "start_line", 1)
                  e0 == Get(a, "end_line", s0)
                  s1 == IF s0 < 1 THEN 1 ELSE s0
                  e1 == IF e0 > n THEN n ELSE e0
              IN  PatchDone("Replaced lines", f, v1, p, lines,
                            SliceAssign(lines, s1 - 1, e1, <<WithNL(content)>>))
         ELSE IF operation = "append"
         THEN LET c1 == IF /\ ~(content # <<>> /\ content[1] = "NL")
                           /\ n > 0
                           /\ ~EndsWithNL(lines[n])
                        THEN <<"NL">> \o content ELSE content
              IN  PatchDone("Appended to file", f, v1, p, lines,
                            Append(lines, WithNL(c1)))
         ELSE IF operation = "prepend"
         THEN PatchDone("Prepended to file", f, v1, p, lines,
                        InsertAt(lines, 0, WithNL(content)))
         ELSE IF operation \in {"add_after", "add_before"}
         THEN IF marker = <<>> THEN PatchErr("marker is required", f, v1)
              ELSE LET i == FindMarker(lines, marker, 1)
                   IN  IF i = 0 THEN PatchErr("Marker not found in file", f, v1)
                       ELSE PatchDone("Added at marker", f, v1, p, lines,
                               InsertAt(lines,
                                        IF operation = "add_after" THEN i ELSE i - 1,
                                        WithNL(content)))
         ELSE IF operation = "delete_lines"
         THEN LET s0 == Get(a, "start_line", 1)
                  e0 == Get(a, "end_line", s0)
                  s1 == IF s0 < 1 THEN 1 ELSE s0
                  e1 == IF e0 > n THEN n ELSE e0
              IN  PatchDone("Deleted lines", f, v1, p, lines,
                            SliceAssign(lines, s1 - 1, e1, <<>>))
         ELSE PatchErr("Unknown operation", f, v1)

\* list_dir: the workspace has the directories "." and "d"; d/b.txt lives
\* in "d", a.txt in "."
Dirs == {".", "d"}

ListDirTool(f, dir_path) ==
    IF dir_path \notin Dirs
    THEN <<"Error:", "Directory", dir_path, "not found.">>
    ELSE LET output == IF dir_path = "."
                       THEN (IF f["a.txt"].ex THEN << <<"[FILE]", "a.txt">> >> ELSE <<>>)
                            \o << <<"[DIR]", "d">> >>
                       ELSE IF f["d/b.txt"].ex THEN << <<"[FILE]", "b.txt">> >>
                       ELSE <<>>
         IN  IF output = <<>> THEN <<"(empty directory)">>
             ELSE JoinLines([i \in 1..Len(output) |->
                     IF i < Len(output) THEN output[i] \o <<"NL">> ELSE output[i]])

\* search_files: one result line per line of a file under dir_path that
\* holds the search term
RECURSIVE MatchesIn(_, _, _, _)
MatchesIn(p, lines, term, i) ==
    IF i > Len(lines) THEN <<>>
    ELSE (IF Contains(lines[i], term) \/ term = <<>>
          THEN << <<p, ":", NumStr(i), ":">> \o Strip(lines[i]) >> ELSE <<>>)
         \o MatchesIn(p, lines, term, i + 1)

SearchFileTool(f, dir_path, search_term) ==
    IF dir_path \notin Dirs
    THEN <<"Error:", "Directory", dir_path, "not found.">>
    ELSE LET under   == IF dir_path = "." THEN PathOrder ELSE <<"d/b.txt">>
             hits(p) == IF f[p].ex THEN MatchesIn(p, ReadLines(f[p].data), search_term, 1)
                        ELSE <<>>
             results == IF Len(under) = 2 THEN hits(under[1]) \o hits(under[2])
                        ELSE hits(under[1])
         IN  IF results = <<>> THEN <<"No matches found.">>
             ELSE JoinLines([i \in 1..Len(results) |->
                     IF i < Len(results) THEN results[i] \o <<"NL">> ELSE results[i]])

\* focus_file / unfocus_file (build/lib/core/context_manager.py): [out, focused]
add_focus(f, focused, p) ==
    IF ~f[p].ex THEN [out |-> <<"Error:", "File", p, "does not exist.">>, focused |-> focused]
    ELSE [out |-> <<"Added", p, "to focus.">>, focused |-> focused \cup {p}]

remove_focus(focused, p) ==
    IF p \in focused
    THEN [out |-> <<"Removed", p, "from focus.">>, focused |-> focused \ {p}]
    ELSE [out |-> <<"File", p, "was not in focus.">>, focused |-> focused]

\* run_command (build/lib/tools/shell_tools.py): what the command does is the
\* environment's: "true" exits 0, "false" exits non-zero, "sleep" outlives
\* every timeout; io = "raises" is Popen or the PTY failing
Commands == {"true", "false", "sleep"}

RunCommandTool(f, v, command, timeout, io) ==
    IF io = "raises" THEN ToolRes(<<"Error running PTY command">>, f, v, TRUE, FALSE)
    ELSE IF command = "sleep"
    THEN ToolRes(<<"Error:", "Command timed out after", timeout, "s">>, f, v, TRUE, FALSE)
    ELSE IF command = "false" THEN ToolRes(<<"boom", "NL">>, f, v, TRUE, FALSE)
    ELSE ToolRes(<<"ok", "NL">>, f, v, FALSE, FALSE)

\* no command is running: _run_pty has not been entered
\* no LearningOrchestrator around the orchestrator: run() is called directly
NoLearner == [mode |-> "none", phase |-> "idle", buffer |-> 0, learned |-> FALSE,
              observation |-> [set |-> FALSE], result |-> "pending"]

NoShell ==
    [pc |-> "idle", command |-> "true", timeout |-> 0, elapsed |-> 0,
     proc |-> "none", signalled |-> FALSE, timed_out |-> FALSE, result |-> <<>>,
     written |-> <<>>, unread |-> <<>>, captured_output |-> <<>>]

\* the failure flag approve_tool computes from a result string
is_actual_error(result) ==
    StartsWith(result, <<"Error:">>) \/ StartsWith(result, <<"VIOLATION:">>)

----------------------------------------------------------------------------
(* Inputs explored                                                         *)

InitData  == { <<"foo", "NL">> }
WriteData == { <<>>, <<"bar", "NL">>, <<"#", "placeholder">> }
Targets   == { <<>>, <<"foo">> }
Replacements == { <<"bar">> }
PatchArgs ==
    { [operation |-> "append", content |-> <<"X">>],
      [operation |-> "add_after", marker |-> <<"zzz">>, content |-> <<"X">>],
      [operation |-> "rename"] }
ReadRanges == { <<1, -1>> }

----------------------------------------------------------------------------
(* The file-level operations as steps of the workspace                     *)

NoObs == [tool |-> "none", path |-> "a.txt", args |-> [none |-> TRUE], io |-> "ok",
          pre |-> NoFile, recorded |-> 0,
          out |-> <<>>, failed |-> FALSE, wrote |-> FALSE]

NoTask == [open |-> FALSE, undone |-> FALSE, n |-> 0, start |-> [p \in Paths |-> NoFile],
           touched |-> {}, backed |-> TRUE]

VmInit(backend, installed) ==
    [installed |-> installed, backend |-> backend, history |-> <<>>,
     commits |-> <<GitInitCommit>>, index |-> [p \in Paths |-> NoFile],
     task_files |-> <<>>, current_message |-> "", current_task_id |-> 0,
     now |-> 1, ignored |-> {}]

InBounds(f, v) ==
    /\ \A p \in Paths : Len(f[p].data) <= MaxFileLen
    /\ Recorded(v) <= MaxEntries

\* a tool call r on path p becomes the new state; the task observation
\* notes an overwritten file and whether its content was in the store
Apply(tool, p, a, io, r) ==
    /\ calls < MaxCalls
    /\ calls' = calls + 1
    /\ InBounds(r.files, r.vm)
    /\ files' = r.files
    /\ vm' = r.vm
    /\ obs' = [tool |-> tool, path |-> p, args |-> a, io |-> io,
               pre |-> files[p], recorded |-> Recorded(vm), out |-> r.out,
               failed |-> r.failed, wrote |-> r.wrote]
    /\ task' = IF r.wrote /\ files[p].ex
               THEN [task EXCEPT
                       !.touched = @ \cup {p},
                       !.backed  = @ /\ StoreHolds(r.vm, p, files[p].data)]
               ELSE task
    /\ UNCHANGED <<ctlvars, runvars, envvars, histvars, parsevars, shellvars, learnvars>>

FsSetCommitMessage ==
    \E m \in Messages, dt \in {0, 1} :
        /\ vm.installed
        /\ task.n < MaxTasks
        /\ vm.now + dt <= MaxClock
        /\ vm' = set_commit_message([vm EXCEPT !.now = @ + dt], m)
        /\ task' = [open |-> TRUE, undone |-> FALSE, n |-> task.n + 1,
                    start |-> files,
                    touched |-> {}, backed |-> TRUE]
        /\ obs' = [NoObs EXCEPT !.tool = "set_commit_message"]
        /\ UNCHANGED <<files, calls>>
        /\ UNCHANGED <<ctlvars, runvars, envvars, histvars, parsevars, shellvars, learnvars>>

FsRead ==
    \E p \in Paths, rg \in ReadRanges, io \in {"ok", "raises"} :
        Apply("read_file", p, [start_line |-> rg[1], end_line |-> rg[2]], io,
              ReadFileTool(files, vm, p, rg[1], rg[2], io))

FsWrite ==
    \E p \in Paths, c \in WriteData, io \in IoOutcomes :
        Apply("write_file", p, [content |-> c], io,
              WriteFileTool(files, vm, p, c, io))

FsEdit ==
    \E p \in Paths, t \in Targets, r \in Replacements, io \in IoOutcomes :
        Apply("edit_file", p, [target |-> t, replacement |-> r], io,
              EditFileTool(files, vm, p, t, r, io))

FsPatch ==
    \E p \in Paths, a \in PatchArgs, io \in IoOutcomes :
        Apply("patch_file", p, a, io, PatchFileTool(files, vm, p, a, io))

FsRunCommand ==
    \E c \in Commands, io \in {"ok", "raises"} :
        Apply("run_command", "a.txt", [command |-> c], io,
              RunCommandTool(files, vm, c, "300", io))

FsUndoTask ==
    /\ vm.installed
    /\ LET r == undo_task(files, vm)
       IN  /\ files' = r.files
           /\ vm' = r.vm
           /\ obs' = [NoObs EXCEPT !.tool = "undo_task",
                                   !.out = <<NumStr(r.n)>>]
    /\ task' = [task EXCEPT !.open = FALSE, !.undone = task.open]
    /\ UNCHANGED calls
    /\ UNCHANGED <<ctlvars, runvars, envvars, histvars, parsevars, shellvars, learnvars>>

\* the control loop at rest, as the file-level specification keeps it
CtlAtRest ==
    /\ status = "idle"
    /\ pending = [set |-> FALSE, val |-> <<>>, mem |-> <<>>]
    /\ tool_history = <<>>
    /\ memory = <<>>
    /\ focused_files = {}
    /\ message = "go"
    /\ pc = "start"
    /\ loop = 1
    /\ iteration = 0
    /\ attempt = 0
    /\ response = "None"
    /\ json_bound = FALSE
    /\ messages = <<>>
    /\ choices = 0
    /\ last_reply = "done"
    /\ policy = "n"
    /\ nsteps = 0
    /\ gateway_calls = 0
    /\ ev = [kind |-> "none", tool |-> <<>>, decision |-> "none", raised |-> FALSE,
             appended |-> 0, cleared |-> TRUE, status |-> "idle"]
    /\ owed = FALSE
    /\ warned = 0
    /\ sample = <<>>
    /\ interpreted = [set |-> FALSE, val |-> <<>>, mem |-> <<>>]
    /\ shell = NoShell
    /\ learner = NoLearner

FsInit ==
    /\ files \in [Paths -> {NoFile} \cup {FileOf(c) : c \in InitData}]
    /\ \E b \in {"flat", "git"}, i \in BOOLEAN :
          /\ (~i => b = "flat")
          /\ vm = VmInit(b, i)
    /\ obs = NoObs
    /\ task = NoTask
    /\ calls = 0
    /\ CtlAtRest

FsNext ==
    \/ FsSetCommitMessage
    \/ FsRead
    \/ FsWrite
    \/ FsEdit
    \/ FsPatch
    \/ FsRunCommand
    \/ FsUndoTask

SpecFS == FsInit /\ [][FsNext]_vars

----------------------------------------------------------------------------
(* edit_file on its own: every small content, target and replacement       *)

MaxEditLen == 3      \* longest file content edit_file is given, in tokens
MaxTargetLen == 2    \* longest target edit_file is given, in tokens

RECURSIVE SeqsUpTo(_, _)
SeqsUpTo(S, n) ==
    IF n = 0 THEN { <<>> }
    ELSE LET shorter == SeqsUpTo(S, n - 1)
         IN  shorter \cup {Append(q, c) : q \in shorter, c \in S}

EditData == SeqsUpTo({"a", "b"}, MaxEditLen)
EditTargets == SeqsUpTo({"a", "b", "SP"}, MaxTargetLen)
EditReplacements == { <<>>, <<"c">>, <<"a", "a">> }

EditInit ==
    /\ \E c \in EditData :
          files = [p \in Paths |-> IF p = "a.txt" THEN FileOf(c) ELSE NoFile]
    /\ \E b \in {"flat", "git"}, i \in BOOLEAN :
          /\ (~i => b = "flat")
          /\ vm = VmInit(b, i)
    /\ obs = NoObs
    /\ task = NoTask
    /\ calls = 0
    /\ CtlAtRest

EditFile ==
    \E p \in Paths, t \in EditTargets, r \in EditReplacements, io \in IoOutcomes :
        Apply("edit_file", p, [target |-> t, replacement |-> r], io,
              EditFileTool(files, vm, p, t, r, io))

SpecEdit == EditInit /\ [][EditFile]_vars

----------------------------------------------------------------------------
(* write_file, read_file and edit_file on one file in a directory: contents *)
(* of several lines with "\n", "\r\n" and "\r" line ends, an existing       *)
(* empty file, a missing file, and line ranges inside and outside the file *)

MaxTextLen == 3      \* longest content written or found on disk, in tokens

TextData == SeqsUpTo({"x", "NL", "CR"}, MaxTextLen)
TextRanges == { <<1, 0 - 1>>, <<1, 1>>, <<2, 2>>, <<1, 2>>, <<2, 0 - 1>>,
                <<2, 5>>, <<0, 1>>, <<2, 0 - 2>>, <<3, 2>> }
TextTargets == SeqsUpTo({"x", "NL"}, MaxTargetLen)
TextReplacements == { <<>>, <<"y">> }

TextInit ==
    /\ \E d \in {NoFile} \cup {FileOf(c) : c \in TextData} :
          files = [p \in Paths |-> IF p = "d/b.txt" THEN d ELSE NoFile]
    /\ vm = VmInit("git", TRUE)
    /\ obs = NoObs
    /\ task = NoTask
    /\ calls = 0
    /\ CtlAtRest

TextWrite ==
    \E c \in TextData, io \in {"ok", "raises"} :
        Apply("write_file", "d/b.txt", [content |-> c], io,
              WriteFileTool(files, vm, "d/b.txt", c, io))

\* the read notes whether it follows a successful write of the same path,
\* and the content that write was given
TextRead ==
    \E rg \in TextRanges :
        LET after == obs.tool = "write_file" /\ ~obs.failed /\ obs.path = "d/b.txt"
        IN  Apply("read_file", "d/b.txt",
                  [start_line |-> rg[1], end_line |-> rg[2],
                   after_write |-> after,
                   written |-> IF after THEN obs.args.content ELSE <<>>],
                  "ok", ReadFileTool(files, vm, "d/b.txt", rg[1], rg[2], "ok"))

TextEdit ==
    \E t \in TextTargets, r \in TextReplacements :
        Apply("edit_file", "d/b.txt", [target |-> t, replacement |-> r], "ok",
              EditFileTool(files, vm, "d/b.txt", t, r, "ok"))

TextNext == TextWrite \/ TextRead \/ TextEdit

SpecText == TextInit /\ [][TextNext]_vars

----------------------------------------------------------------------------
(* patch_file insert_at_line on its own: files with and without a final    *)
(* newline, line numbers below, inside and beyond the file                 *)

MaxPatchLen == 4     \* longest file content insert_at_line starts from, in tokens
MaxLine == 5         \* largest line number insert_at_line is given

PatchData == SeqsUpTo({"a", "NL"}, MaxPatchLen)
InsertLines == (0 - 1)..MaxLine
InsertContents == { <<>>, <<"X">>, <<"X", "NL">> }

PatchInit ==
    /\ \E c \in PatchData :
          files = [p \in Paths |-> IF p = "a.txt" THEN FileOf(c) ELSE NoFile]
    /\ \E b \in {"flat", "git"}, i \in BOOLEAN :
          /\ (~i => b = "flat")
          /\ vm = VmInit(b, i)
    /\ obs = NoObs
    /\ task = NoTask
    /\ calls = 0
    /\ CtlAtRest

PatchInsert ==
    \E p \in Paths, k \in InsertLines, c \in InsertContents, io \in IoOutcomes :
        LET a == [operation |-> "insert_at_line", line |-> k, content |-> c]
        IN  Apply("patch_file", p, a, io, PatchFileTool(files, vm, p, a, io))

SpecPatch == PatchInit /\ [][PatchInsert]_vars

----------------------------------------------------------------------------
(* run_command step by step (build/lib/tools/shell_tools.py, _run_pty):    *)
(* the child process, the clock and the polling loop                       *)

MaxTicks == 3        \* seconds of wall-clock time explored
MaxTimeout == 2      \* largest timeout run_command is given, in seconds
MaxBytes == 2        \* most bytes the child process writes to its terminal

\* what the process writes: a printable byte, an ANSI colour sequence, a
\* carriage return
Bytes == {"a", "ESC[0m", "CR"}

\* strip_ansi_codes: the escape sequences and the carriage returns go
strip_ansi_codes(text) == SelectSeq(text, LAMBDA b : b \notin {"ESC[0m", "CR"})

\* "true" and "false" exit on their own, "sleep" outlives every timeout but
\* dies of SIGTERM, "trap" outlives every timeout and ignores SIGTERM
ShellCommands == Commands \cup {"trap"}
Timeouts == 1..MaxTimeout

ShellInit ==
    /\ files = [p \in Paths |-> IF p = "a.txt" THEN FileOf(<<"foo", "NL">>) ELSE NoFile]
    /\ \E b \in {"flat", "git"}, i \in BOOLEAN :
          /\ (~i => b = "flat")
          /\ vm = VmInit(b, i)
    /\ obs = NoObs
    /\ task = NoTask
    /\ calls = 0
    /\ CtlAtRest

\* subprocess.Popen in a new session, start_time taken
ShellStart ==
    /\ shell.pc = "idle"
    /\ \E c \in ShellCommands, t \in Timeouts, io \in {"ok", "raises"} :
          shell' = IF io = "raises"
                   THEN [NoShell EXCEPT !.pc = "done", !.command = c, !.timeout = t,
                                        !.result = <<"Error running PTY command">>]
                   ELSE [NoShell EXCEPT !.pc = "loop", !.command = c, !.timeout = t,
                                        !.proc = "running"]
    /\ UNCHANGED <<fsvars, ctlvars, runvars, envvars, histvars, parsevars, learnvars>>

\* a second of wall-clock time passes
ShellTick ==
    /\ shell.pc \in {"loop", "wait"}
    /\ shell.elapsed < MaxTicks
    /\ shell' = [shell EXCEPT !.elapsed = @ + 1]
    /\ UNCHANGED <<fsvars, ctlvars, runvars, envvars, histvars, parsevars, learnvars>>

\* the child process writes a byte to its terminal, while it has it open
ProcWrites ==
    /\ shell.proc = "running"
    /\ shell.pc = "loop"
    /\ Len(shell.written) < MaxBytes
    /\ \E b \in Bytes :
          shell' = [shell EXCEPT !.written = Append(@, b), !.unread = Append(@, b)]
    /\ UNCHANGED <<fsvars, ctlvars, runvars, envvars, histvars, parsevars, learnvars>>

\* the child process exits: on its own, or of a SIGTERM it does not ignore
ProcExits ==
    /\ shell.proc = "running"
    /\ \/ shell.command \in {"true", "false"}
       \/ shell.signalled /\ shell.command # "trap"
    /\ shell' = [shell EXCEPT !.proc = "exited"]
    /\ UNCHANGED <<fsvars, ctlvars, runvars, envvars, histvars, parsevars, learnvars>>

\* one pass of `while process.poll() is None`: the timeout check with
\* process.terminate() and the return, else select and os.read of what
\* the terminal holds, which leaves the loop on OSError (the terminal is
\* closed and holds nothing)
ShellLoop ==
    /\ shell.pc = "loop"
    /\ IF shell.proc # "running"
       THEN shell' = [shell EXCEPT !.pc = "wait"]
       ELSE IF shell.elapsed > shell.timeout
       THEN \E gone \in BOOLEAN :
               /\ gone => shell.command # "trap"
               /\ shell' = [shell EXCEPT
                      !.pc = "done", !.signalled = TRUE, !.timed_out = TRUE,
                      !.proc = IF gone THEN "exited" ELSE "running",
                      !.result = <<"Error:", "Command timed out after",
                                   NumStr(shell.timeout), "s">>]
       ELSE \E r \in {"data", "oserror"} :
               /\ r = "oserror" => shell.unread = <<>>
               /\ shell' = [shell EXCEPT
                      !.pc = IF r = "oserror" THEN "wait" ELSE "loop",
                      !.captured_output = IF r = "data" THEN @ \o shell.unread ELSE @,
                      !.unread = IF r = "data" THEN <<>> ELSE @]
    /\ UNCHANGED <<fsvars, ctlvars, runvars, envvars, histvars, parsevars, learnvars>>

\* process.wait() after the loop and the captured output returned
ShellWait ==
    /\ shell.pc = "wait"
    /\ shell.proc = "exited"
    /\ shell' = [shell EXCEPT !.pc = "done",
                               !.result = strip_ansi_codes(shell.captured_output)]
    /\ UNCHANGED <<fsvars, ctlvars, runvars, envvars, histvars, parsevars, learnvars>>

ShellNext == ShellStart \/ ShellTick \/ ProcWrites \/ ProcExits \/ ShellLoop \/ ShellWait

SpecShell == ShellInit /\ [][ShellNext]_vars

----------------------------------------------------------------------------
(* The Version Store on its own: backup_file, restore_file, the displays   *)
(* and a restart, on ledgers below, at and beyond the limits               *)

MaxStoreCalls == 3   \* Version Store operations explored after Init

\* ledger sizes the store starts from: empty, small, and at the limits
StoreSizes == {0, 2, HistoryCount * 2, StoreLimit}

RestoreIndexes ==
    {0 - 2, 0 - 1, 0, 1, HistoryCount * 2, StoreLimit - 1, StoreLimit, StoreLimit + 1}

ChangeData == { <<"v1", "NL">>, <<"v2", "NL">> }

\* one round: backup_file("a.txt"), then a write of new content
GrowOnce(st) ==
    LET b == backup_file(st.files, st.vm, "a.txt", "modify", "ok")
        c == IF Recorded(st.vm) % 2 = 0 THEN <<"v1", "NL">> ELSE <<"v2", "NL">>
    IN  [files |-> PutFile(st.files, "a.txt", c), vm |-> b.vm]

\* the store after n such rounds
RECURSIVE Grown(_, _)
Grown(st, n) ==
    IF n = 0 THEN st
    ELSE IF n = 1 THEN GrowOnce(st)
    ELSE Bind(Grown(st, n \div 2), LAMBDA half : Grown(half, n - n \div 2))

StoreInit ==
    /\ \E b \in {"flat", "git"}, n \in StoreSizes, ig \in {{}, {"d/b.txt"}} :
          /\ (b = "flat" => ig = {})
          /\ LET g == Grown([files |-> [p \in Paths |-> FileOf(<<"foo", "NL">>)],
                             vm    |-> [VmInit(b, TRUE) EXCEPT !.ignored = ig]], n)
             IN  files = g.files /\ vm = g.vm
    /\ obs = NoObs
    /\ task = NoTask
    /\ calls = 0
    /\ CtlAtRest

StoreStep ==
    /\ calls < MaxStoreCalls
    /\ calls' = calls + 1
    /\ UNCHANGED <<task, ctlvars, runvars, envvars, histvars, parsevars, shellvars, learnvars>>

StoreSetCommitMessage ==
    /\ StoreStep
    /\ vm.now < MaxClock
    /\ \E m \in Messages : vm' = set_commit_message([vm EXCEPT !.now = @ + 1], m)
    /\ obs' = [NoObs EXCEPT !.tool = "set_commit_message"]
    /\ UNCHANGED files

\* backup_file called directly; twice says the call before was a successful
\* backup_file of the same path, with nothing in between
StoreBackup ==
    /\ StoreStep
    /\ \E p \in Paths, io \in {"ok", "backup_fails"} :
          LET b     == backup_file(files, vm, p, "modify", io)
              twice == obs.tool = "backup_file" /\ obs.path = p
                       /\ obs.io = "ok" /\ io = "ok"
          IN  /\ vm' = b.vm
              /\ obs' = [NoObs EXCEPT
                     !.tool = "backup_file", !.path = p, !.io = io,
                     !.pre = files[p],
                     !.args = [ref |-> b.ref, twice |-> twice,
                               prev |-> IF twice THEN obs.args.ref ELSE 0],
                     !.failed = (b.ref = 0)]
    /\ UNCHANGED files

\* the content of a file changes (a tool's write after its backup)
StoreChange ==
    /\ StoreStep
    /\ \E p \in Paths, c \in ChangeData : files' = PutFile(files, p, c)
    /\ obs' = [NoObs EXCEPT !.tool = "write_file"]
    /\ UNCHANGED vm

\* the entries restore_file's index counts, oldest first, as [path, content]
Ledger(v) ==
    IF v.backend = "flat"
    THEN [i \in 1..Len(v.history) |->
            [file_path |-> v.history[i].file_path,
             content   |-> FileOf(v.history[i].data)]]
    ELSE LET es == GitHistoryEntries(v, StoreLimit)
         IN  [i \in 1..Len(es) |->
                [file_path |-> es[i].file_path,
                 content   |-> IF es[i].file_path \in Paths
                               THEN v.commits[es[i].commit_hash].tree[es[i].file_path]
                               ELSE NoFile]]

StoreRestore ==
    /\ StoreStep
    /\ \E index \in RestoreIndexes :
          LET r == restore_file(files, vm, index)
          IN  /\ files' = r.files
              /\ vm' = r.vm
              /\ obs' = [NoObs EXCEPT
                     !.tool = "restore_file",
                     !.args = [index |-> index, before |-> files,
                               ledger |-> Ledger(vm)],
                     !.failed = ~r.ok]

\* the program is restarted on the same workspace
StoreReload ==
    /\ StoreStep
    /\ vm' = Reload(vm)
    /\ obs' = [NoObs EXCEPT !.tool = "reload"]
    /\ UNCHANGED files

StoreNext ==
    \/ StoreSetCommitMessage
    \/ StoreBackup
    \/ StoreChange
    \/ StoreRestore
    \/ StoreReload

SpecStore == StoreInit /\ [][StoreNext]_vars

----------------------------------------------------------------------------
(* Response Interpreter: JSON and Python-literal parsing of token text     *)
(* (json.loads / ast.literal_eval as used by parse_response).              *)
(* Tokens: "{" "}" ":" "," and "DQ" (double quote), "SQ" (single quote),   *)
(* "BS" (backslash), "FENCE" (three backticks), "NL", "SP", "TAB", "CR";   *)
(* every other token is a word.  After a "BS" the words "n", "t", "r"      *)
(* are the escape letters.  A parsed value is kept in canonical form: the  *)
(* tokens of its compact JSON serialisation, strings double-quoted and     *)
(* escaped; for an object, mem lists its members <<key, value>>.           *)

NumToks  == {"0", "1", "2", "5", "30"}
JsonLits == {"true", "false", "null"}
PyLits   == {"True", "False", "None"}
PyLitVal(w) == IF w = "True" THEN "true" ELSE IF w = "False" THEN "false" ELSE "null"

RECURSIVE SkipWS(_, _)
SkipWS(t, i) == IF i <= Len(t) /\ t[i] \in {"SP", "NL", "TAB", "CR"}
                THEN SkipWS(t, i + 1) ELSE i

PFail == [ok |-> FALSE, val |-> <<>>, mem |-> <<>>, next |-> 0]
POk(v, m, n) == [ok |-> TRUE, val |-> v, mem |-> m, next |-> n]

\* one character of string content as the escaped form it has inside a
\* JSON string (backslash, quote, newline, carriage return, tab)
EscapeTok(c) ==
    IF c = "BS" THEN <<"BS", "BS">>
    ELSE IF c = "DQ" THEN <<"BS", "DQ">>
    ELSE IF c = "NL" THEN <<"BS", "n">>
    ELSE IF c = "CR" THEN <<"BS", "r">>
    ELSE IF c = "TAB" THEN <<"BS", "t">>
    ELSE <<c>>

RECURSIVE EscapeAll(_)
EscapeAll(c) == IF c = <<>> THEN <<>> ELSE EscapeTok(Head(c)) \o EscapeAll(Tail(c))

\* the body of a string literal opened by quote q, from position j
RECURSIVE StrBody(_, _, _, _, _)
StrBody(t, j, q, py, acc) ==
    IF j > Len(t) THEN PFail
    ELSE IF t[j] = q THEN POk(<<"DQ">> \o acc \o <<"DQ">>, <<>>, j + 1)
    ELSE IF t[j] = "BS"
    THEN IF j + 1 > Len(t) THEN PFail
         ELSE LET e == t[j + 1]
              IN  IF e \in {"DQ", "BS"} \/ (py /\ e = "SQ")
                  THEN StrBody(t, j + 2, q, py, acc \o EscapeTok(e))
                  ELSE IF e \in {"n", "t", "r"}
                  THEN StrBody(t, j + 2, q, py, acc \o <<"BS", e>>)
                  ELSE IF py
                  THEN StrBody(t, j + 2, q, py, acc \o <<"BS", "BS", e>>)
                  ELSE PFail
    ELSE IF t[j] \in {"NL", "CR"} \/ (~py /\ t[j] = "TAB") THEN PFail
    ELSE StrBody(t, j + 1, q, py, acc \o EscapeTok(t[j]))

RECURSIVE ParseVal(_, _, _)
RECURSIVE Members(_, _, _, _, _)
RECURSIVE SetElems(_, _, _)

\* a Python set display {e1, e2}: kept as the tokens "set(" e1 "," e2 ")";
\* an element that is itself a dict or a set is unhashable
IsSetStart(t, j) ==
    \E e \in {ParseVal(t, j, TRUE)} :
        e.ok /\ (LET c == SkipWS(t, e.next)
                 IN  c <= Len(t) /\ t[c] \in {",", "}"})

SetElems(t, j, acc) ==
    Bind(ParseVal(t, j, TRUE), LAMBDA e :
        IF ~e.ok \/ e.val[1] \in {"{", "set("} THEN PFail
        ELSE LET c == SkipWS(t, e.next)
             IN  IF c > Len(t) THEN PFail
                 ELSE IF t[c] = "}" THEN POk(acc \o e.val \o <<")">>, <<>>, c + 1)
                 ELSE IF t[c] # "," THEN PFail
                 ELSE LET n == SkipWS(t, c + 1)
                      IN  IF n <= Len(t) /\ t[n] = "}"
                          THEN POk(acc \o e.val \o <<")">>, <<>>, n + 1)
                          ELSE Bind(<<n, acc \o e.val \o <<",">> >>, LAMBDA a :
                                   SetElems(t, a[1], a[2])))

ParseObj(t, i, py) ==
    Bind(SkipWS(t, i + 1), LAMBDA j :
        IF j <= Len(t) /\ t[j] = "}" THEN POk(<<"{", "}">>, <<>>, j + 1)
        ELSE IF py /\ IsSetStart(t, j) THEN SetElems(t, j, <<"set(">>)
        ELSE Members(t, j, py, <<"{">>, <<>>))

ParseVal(t, i, py) ==
    Bind(SkipWS(t, i), LAMBDA j :
        IF j > Len(t) THEN PFail
        ELSE IF t[j] = "{" THEN ParseObj(t, j, py)
        ELSE IF t[j] = "DQ" \/ (py /\ t[j] = "SQ")
        THEN StrBody(t, j + 1, t[j], py, <<>>)
        ELSE IF t[j] \in NumToks THEN POk(<<t[j]>>, <<>>, j + 1)
        ELSE IF ~py /\ t[j] \in JsonLits THEN POk(<<t[j]>>, <<>>, j + 1)
        ELSE IF py /\ t[j] \in PyLits THEN POk(<<PyLitVal(t[j])>>, <<>>, j + 1)
        ELSE PFail)

\* the members of an object from position j on, up to the closing brace
Members(t, j, py, acc, mem) ==
    Bind(IF j <= Len(t) /\ (t[j] = "DQ" \/ (py /\ t[j] = "SQ"))
         THEN StrBody(t, j + 1, t[j], py, <<>>) ELSE PFail, LAMBDA k :
    IF ~k.ok THEN PFail
    ELSE LET c == SkipWS(t, k.next)
         IN  IF c > Len(t) \/ t[c] # ":" THEN PFail
             ELSE Bind(ParseVal(t, c + 1, py), LAMBDA v :
                  IF ~v.ok THEN PFail
                  ELSE LET d    == SkipWS(t, v.next)
                           acc1 == acc \o k.val \o <<":">> \o v.val
                           mem1 == Append(mem, <<k.val, v.val>>)
                       IN  IF d > Len(t) THEN PFail
                           ELSE IF t[d] = "}"
                           THEN POk(acc1 \o <<"}">>, mem1, d + 1)
                           ELSE IF t[d] # "," THEN PFail
                           ELSE LET n == SkipWS(t, d + 1)
                                IN  IF py /\ n <= Len(t) /\ t[n] = "}"
                                    THEN POk(acc1 \o <<"}">>, mem1, n + 1)
                                    ELSE Bind(<<n, acc1 \o <<",">>, mem1>>, LAMBDA a :
                                             Members(t, a[1], py, a[2], a[3]))))

\* json.loads(t): one value and nothing but blanks after it
json_loads(text) ==
    Bind(text, LAMBDA t :
        Bind(ParseVal(t, 1, FALSE), LAMBDA r :
            IF r.ok /\ SkipWS(t, r.next) > Len(t) THEN r ELSE PFail))

\* ast.literal_eval(t)
literal_eval(text) ==
    Bind(text, LAMBDA t :
        Bind(ParseVal(t, 1, TRUE), LAMBDA r :
            IF r.ok /\ SkipWS(t, r.next) > Len(t) THEN r ELSE PFail))

Str(w) == <<"DQ", w, "DQ">>

\* key in parsed / parsed.get(key): the last member with that key wins
HasKey(mem, key) == \E i \in 1..Len(mem) : mem[i][1] = Str(key)
RECURSIVE LookupFrom(_, _, _)
LookupFrom(mem, key, i) ==
    IF i = 0 THEN <<>>
    ELSE IF mem[i][1] = Str(key) THEN mem[i][2]
    ELSE LookupFrom(mem, key, i - 1)
Lookup(mem, key) == LookupFrom(mem, key, Len(mem))

\* the text a JSON string value stands for (escape sequences resolved)
RECURSIVE Unescape(_)
Unescape(b) ==
    IF b = <<>> THEN <<>>
    ELSE IF b[1] = "BS" /\ Len(b) >= 2
    THEN LET e == b[2]
             c == IF e = "n" THEN "NL" ELSE IF e = "t" THEN "TAB"
                  ELSE IF e = "r" THEN "CR" ELSE e
         IN  <<c>> \o Unescape(SubSeq(b, 3, Len(b)))
    ELSE <<b[1]>> \o Unescape(Tail(b))

IsStrVal(v) == Len(v) >= 2 /\ v[1] = "DQ"
IsObjVal(v) == Len(v) >= 2 /\ v[1] = "{"
StrOf(v) == Unescape(SubSeq(v, 2, Len(v) - 1))
NumOf(v) == IF v = <<"0">> THEN 0 ELSE IF v = <<"1">> THEN 1
            ELSE IF v = <<"2">> THEN 2 ELSE IF v = <<"5">> THEN 5 ELSE 30

\* json.dumps(v, sort_keys=True) of a parsed value: members ordered by
\* key, a repeated key keeping its last value; a set is not serialisable
KeyWords == <<"args", "command", "content", "dir_path", "end_line", "file_path",
              "interactive", "marker", "name", "operation", "path",
              "replacement", "search_term", "start_line", "target",
              "timeout", "tool">>
KeyRank(k) ==
    IF \E i \in 1..Len(KeyWords) : k = Str(KeyWords[i])
    THEN CHOOSE i \in 1..Len(KeyWords) : k = Str(KeyWords[i])
    ELSE Len(KeyWords) + 1

Serialisable(v) == \A i \in 1..Len(v) : v[i] # "set("

RECURSIVE InsertSorted(_, _)
InsertSorted(ms, m) ==
    IF ms = <<>> THEN <<m>>
    ELSE IF KeyRank(m[1]) < KeyRank(ms[1][1]) THEN <<m>> \o ms
    ELSE IF m[1] = ms[1][1] THEN <<m>> \o Tail(ms)
    ELSE <<ms[1]>> \o InsertSorted(Tail(ms), m)

RECURSIVE SortMembers(_, _)
SortMembers(mem, acc) ==
    IF mem = <<>> THEN acc
    ELSE Bind(<<Tail(mem), InsertSorted(acc, Head(mem))>>, LAMBDA a :
             SortMembers(a[1], a[2]))

RECURSIVE json_dumps(_)
RECURSIVE DumpMembers(_)
DumpMembers(ms) ==
    IF ms = <<>> THEN <<>>
    ELSE ms[1][1] \o <<":">> \o json_dumps(ms[1][2])
         \o (IF Len(ms) > 1 THEN <<",">> ELSE <<>>) \o DumpMembers(Tail(ms))

json_dumps(v) ==
    IF IsObjVal(v)
    THEN Bind(SortMembers(json_loads(v).mem, <<>>), LAMBDA ms :
             <<"{">> \o DumpMembers(ms) \o <<"}">>)
    ELSE v

----------------------------------------------------------------------------
(* Response Interpreter: parse_response (core/orchestrator.py)             *)

IsTriple(t, k) ==
    k + 2 <= Len(t) /\ t[k] = "DQ" /\ t[k + 1] = "DQ" /\ t[k + 2] = "DQ"

RECURSIVE FindTriple(_, _)
FindTriple(t, k) ==
    IF k + 2 > Len(t) THEN 0
    ELSE IF IsTriple(t, k) THEN k ELSE FindTriple(t, k + 1)

\* the pattern :\s*"""(.*?)""" matches at position i
TripleMatchAt(t, i) ==
    /\ t[i] = ":"
    /\ LET j == SkipWS(t, i + 1)
       IN  IsTriple(t, j) /\ FindTriple(t, j + 3) # 0

RECURSIVE PreprocessFrom(_, _)
PreprocessFrom(t, i) ==
    IF i > Len(t) THEN <<>>
    ELSE IF TripleMatchAt(t, i)
    THEN Bind(SkipWS(t, i + 1), LAMBDA j :
         Bind(FindTriple(t, j + 3), LAMBDA k :
             <<":", "SP", "DQ">> \o EscapeAll(SubSeq(t, j + 3, k - 1)) \o <<"DQ">>
             \o PreprocessFrom(t, k + 3)))
    ELSE <<t[i]>> \o PreprocessFrom(t, i + 1)

\* a text without a triple-quoted value comes back as it is
_preprocess_response(t) ==
    IF \A i \in 1..Len(t) : ~TripleMatchAt(t, i) THEN t ELSE PreprocessFrom(t, 1)

NoPending == [set |-> FALSE, val |-> <<>>, mem |-> <<>>]
PendingOf(r) == [set |-> TRUE, val |-> r.val, mem |-> r.mem]

\* Method 1: ```(?:json)?\s*(\{.*?\})\s*```
RECURSIVE FindFenceClose(_, _)
FindFenceClose(t, e) ==
    IF e > Len(t) THEN 0
    ELSE IF t[e] = "}" /\ (LET f == SkipWS(t, e + 1)
                           IN  f <= Len(t) /\ t[f] = "FENCE")
    THEN e
    ELSE FindFenceClose(t, e + 1)

FenceOpen(t, i) ==
    SkipWS(t, IF i + 1 <= Len(t) /\ t[i + 1] = "json" THEN i + 2 ELSE i + 1)

FenceMatchAt(t, i) ==
    /\ t[i] = "FENCE"
    /\ LET j == FenceOpen(t, i)
       IN  j <= Len(t) /\ t[j] = "{" /\ FindFenceClose(t, j + 1) # 0

\* re.search: the leftmost position at or after i where the pattern matches
FirstFence(t, i) == LeastOr0({k \in i..Len(t) : FenceMatchAt(t, k)})

Method1(t) ==
    LET i == FirstFence(t, 1)
    IN  IF i = 0 THEN NoPending
        ELSE LET j == FenceOpen(t, i)
                 e == FindFenceClose(t, j + 1)
             IN  Bind(json_loads(SubSeq(t, j, e)), LAMBDA parsed :
                     IF parsed.ok /\ HasKey(parsed.mem, "tool")
                                  /\ HasKey(parsed.mem, "args")
                     THEN PendingOf(parsed) ELSE NoPending)

\* Method 2: \{\s*"tool"\s*: and the brace-depth scan
ToolStartAt(t, i) ==
    /\ t[i] = "{"
    /\ LET j == SkipWS(t, i + 1)
       IN  /\ j + 2 <= Len(t)
           /\ t[j] = "DQ" /\ t[j + 1] = "tool" /\ t[j + 2] = "DQ"
           /\ LET c == SkipWS(t, j + 3) IN c <= Len(t) /\ t[c] = ":"

FirstToolStart(t, i) == LeastOr0({k \in i..Len(t) : ToolStartAt(t, k)})

\* position of the brace that brings the depth back to 0, or 0
RECURSIVE BraceScan(_, _, _, _, _)
BraceScan(t, i, brace_count, in_string, escape_next) ==
    IF i > Len(t) THEN 0
    ELSE IF escape_next THEN BraceScan(t, i + 1, brace_count, in_string, FALSE)
    ELSE IF t[i] = "BS" THEN BraceScan(t, i + 1, brace_count, in_string, TRUE)
    ELSE IF t[i] = "DQ" THEN BraceScan(t, i + 1, brace_count, ~in_string, FALSE)
    ELSE IF in_string THEN BraceScan(t, i + 1, brace_count, in_string, FALSE)
    ELSE IF t[i] = "{" THEN BraceScan(t, i + 1, brace_count + 1, in_string, FALSE)
    ELSE IF t[i] = "}"
    THEN IF brace_count - 1 = 0 THEN i
         ELSE BraceScan(t, i + 1, brace_count - 1, in_string, FALSE)
    ELSE BraceScan(t, i + 1, brace_count, in_string, FALSE)

Method2(t) ==
    LET start_idx == FirstToolStart(t, 1)
    IN  IF start_idx = 0 THEN NoPending
        ELSE LET e == BraceScan(t, start_idx, 0, FALSE, FALSE)
             IN  IF e = 0 THEN NoPending
                 ELSE Bind(SubSeq(t, start_idx, e), LAMBDA tool_code :
                      Bind(json_loads(tool_code), LAMBDA js :
                          IF js.ok THEN PendingOf(js)
                          ELSE Bind(literal_eval(tool_code), LAMBDA py :
                                   IF py.ok THEN PendingOf(py) ELSE NoPending)))

\* Method 3: (read_file|write_file|run_command|list_dir|edit_file):\s*(\{[^}]+\})
AltTools == {"read_file", "write_file", "run_command", "list_dir", "edit_file"}

RECURSIVE FindClose(_, _)
FindClose(t, e) ==
    IF e > Len(t) THEN 0 ELSE IF t[e] = "}" THEN e ELSE FindClose(t, e + 1)

AltMatchAt(t, i) ==
    /\ t[i] \in AltTools
    /\ i + 1 <= Len(t) /\ t[i + 1] = ":"
    /\ LET j == SkipWS(t, i + 2)
       IN  j <= Len(t) /\ t[j] = "{" /\ FindClose(t, j + 1) > j + 1

FirstAlt(t, i) == LeastOr0({k \in i..Len(t) : AltMatchAt(t, k)})

Method3(t) ==
    LET i == FirstAlt(t, 1)
    IN  IF i = 0 THEN NoPending
        ELSE LET j == SkipWS(t, i + 2)
             IN  Bind(json_loads(SubSeq(t, j, FindClose(t, j + 1))), LAMBDA args :
                     IF ~args.ok THEN NoPending
                     ELSE [set |-> TRUE,
                           val |-> <<"{">> \o Str("tool") \o <<":">> \o Str(t[i])
                                   \o <<",">> \o Str("args") \o <<":">> \o args.val
                                   \o <<"}">>,
                           mem |-> << <<Str("tool"), Str(t[i])>>,
                                      <<Str("args"), args.val>> >>])

\* the pending invocation parse_response leaves for the response text
parse_response(text) ==
    Bind(_preprocess_response(text), LAMBDA t :
        Bind(Method1(t), LAMBDA m1 :
            IF m1.set THEN m1
            ELSE Bind(Method2(t), LAMBDA m2 :
                     IF m2.set THEN m2 ELSE Method3(t))))

----------------------------------------------------------------------------
(* The responses the model may give, by name                               *)

ArgObj(k, v) == <<"{">> \o Str(k) \o <<":", "SP">> \o v \o <<"}">>
Invocation(tool, args) ==
    <<"{">> \o Str("tool") \o <<":", "SP">> \o tool \o <<",", "SP">>
        \o Str("args") \o <<":", "SP">> \o args \o <<"}">>

ResponseNames == {"done", "read", "write", "deploy", "timeout", "mention",
                  "ghost", "badargs", "setargs", "dicttool", "plan", "runcmd"}

ResponseText(r) ==
    IF r = "done" THEN <<"Task", "SP", "complete.">>
    ELSE IF r = "read"
    THEN Invocation(Str("read_file"), ArgObj("file_path", Str("a.txt")))
    ELSE IF r = "write"
    THEN <<"Writing", "NL", "FENCE", "json", "NL">>
         \o Invocation(Str("write_file"),
                <<"{">> \o Str("file_path") \o <<":">> \o Str("d/b.txt") \o <<",">>
                \o Str("content") \o <<":", "DQ", "bar", "BS", "n", "DQ", "}">>)
         \o <<"NL", "FENCE">>
    ELSE IF r = "deploy" THEN Invocation(Str("deploy"), <<"{", "}">>)
    ELSE IF r = "timeout" THEN <<"LLM", "SP", "request", "SP", "timed", "SP", "out">>
    ELSE IF r = "mention"
    THEN <<"I", "SP", "will", "SP", "use", "SP", "DQ", "read_file", "DQ">>
    ELSE IF r = "ghost" THEN <<"FENCE", "python", "NL", "pass", "NL", "FENCE">>
    ELSE IF r = "badargs"
    THEN Invocation(Str("read_file"), ArgObj("path", Str("a.txt")))
    ELSE IF r = "setargs"
    THEN Invocation(Str("read_file"), <<"{", "SQ", "a.txt", "SQ", "}">>)
    ELSE IF r = "plan" THEN <<"FENCE", "plan", "NL", "first", "NL", "FENCE">>
    ELSE IF r = "runcmd"
    THEN Invocation(Str("run_command"),
             <<"{">> \o Str("command") \o <<":">> \o Str("true") \o <<",">>
             \o Str("timeout") \o <<":">> \o Str("5") \o <<"}">>)
    ELSE Invocation(ArgObj("name", Str("read_file")), <<"{", "}">>)

----------------------------------------------------------------------------
(* Control loop: step() guards, tool dispatch, approve_tool, reject_tool   *)
(* (core/orchestrator.py)                                                  *)

MAX_ITERATIONS == 30
max_retries    == 3
RingSize       == 10

ToolNames  == {"read_file", "write_file", "edit_file", "patch_file", "search_files",
               "list_dir", "run_command", "focus_file", "unfocus_file"}
SAFE_TOOLS == {"read_file", "list_dir", "search_files", "focus_file", "unfocus_file",
               "write_file", "edit_file", "patch_file", "run_command"}

Turn(role, kind, text) == [role |-> role, kind |-> kind, text |-> text]

\* str.lower() on the words whose case the guards depend on
LowerTok(w) == IF w \in {"Timeout", "TIMEOUT"} THEN "timeout"
               ELSE IF w \in {"Timed", "TIMED"} THEN "timed"
               ELSE IF w \in {"Out", "OUT"} THEN "out" ELSE w
Lower(t) == [i \in 1..Len(t) |-> LowerTok(t[i])]

HasTimeout(text) ==
    \/ Contains(Lower(text), <<"timed", "SP", "out">>)
    \/ Contains(Lower(text), <<"timeout">>)

\* more than 30 non-blank lines of which fewer than 20% are distinct
IsRepetitive(text) ==
    LET ls    == SplitNL(text)
        lines == SelectSeq([i \in 1..Len(ls) |-> Strip(ls[i])], LAMBDA l : l # <<>>)
    IN  Len(lines) > 30 /\ 5 * Cardinality(SeqToSet(lines)) < Len(lines)

\* a token \w* can match
Punct == {"{", "}", ":", ",", "DQ", "SQ", "BS", "FENCE", "NL", "SP", "TAB", "CR"}

RECURSIVE FindNLFence(_, _)
FindNLFence(t, k) ==
    IF k + 1 > Len(t) THEN 0
    ELSE IF t[k] = "NL" /\ t[k + 1] = "FENCE" THEN k ELSE FindNLFence(t, k + 1)

\* ```(?!json|plan)\w*\n.*?\n``` matches at position i
CodeBlockAt(t, i) ==
    /\ t[i] = "FENCE"
    /\ i + 1 <= Len(t)
    /\ LET j == IF t[i + 1] = "NL" THEN i + 1
                ELSE IF t[i + 1] \notin Punct \cup {"json", "plan"}
                        /\ i + 2 <= Len(t) /\ t[i + 2] = "NL"
                THEN i + 2 ELSE 0
       IN  j # 0 /\ FindNLFence(t, j + 1) # 0

IsSimulation(text) ==
    /\ Contains(text, <<"FENCE">>)
    /\ \E i \in 1..Len(text) : CodeBlockAt(text, i)

MentionsTool(text) ==
    \E t \in ToolNames :
        \/ Contains(text, <<"DQ", t, "DQ">>)
        \/ Contains(text, <<"SQ", t, "SQ">>)
        \/ Contains(text, <<"Command:", "SP", t>>)

\* what one attempt of step() does with the text the Gateway returned
Verdict(text) ==
    IF HasTimeout(text) THEN "timeout"
    ELSE IF IsRepetitive(text) THEN "repetitive"
    ELSE IF parse_response(text).set THEN "accept"
    ELSE IF IsSimulation(text) THEN "simulation"
    ELSE IF MentionsTool(text) THEN "mention"
    ELSE "accept"

\* what llm.chat does (return one of the texts, or raise) and what one
\* attempt of step() makes of it
Attempts ==
    {[reply   |-> r,
      verdict |-> Verdict(ResponseText(r)),
      pending |-> parse_response(ResponseText(r))] : r \in ResponseNames}
    \cup {[reply |-> "raise", verdict |-> "raise", pending |-> NoPending]}

NextAttempt_stuck(a) == a
NextAttempt(a) == a + 1

\* pending_tool_call.get("tool") and .get("args", {})
ToolOf(p) == Lookup(p.mem, "tool")
ArgsOf(p) == IF HasKey(p.mem, "args") THEN Lookup(p.mem, "args") ELSE <<"{", "}">>

\* the members of an args value
MemOf(a) == IF IsObjVal(a) THEN json_loads(a).mem ELSE <<>>

Hashable(v) == v = <<>> \/ v[1] \notin {"{", "set("}
ToolWord(v) == IF IsStrVal(v) /\ Len(v) = 3 THEN v[2] ELSE "?"
Registered(v) == IsStrVal(v) /\ Len(v) = 3 /\ v[2] \in ToolNames

\* "{tool_name}:{json.dumps(args, sort_keys=True)}"
CallId(tool_name, args) ==
    (IF IsStrVal(tool_name) THEN StrOf(tool_name) ELSE tool_name)
        \o <<":">> \o json_dumps(args)

\* tool_instance.execute(**args): binding the arguments, then the tool.
\* raised marks an exception (arguments that do not fit the signature).
KeysOf(mem) == {mem[i][1][2] : i \in 1..Len(mem)}
ExecRes(r, fc) == [raised |-> FALSE, focused |-> fc] @@ r
ExecOut(out, f, v, fc) == [raised |-> FALSE, out |-> out, files |-> f, vm |-> v,
                           focused |-> fc]
ExecRaised(f, v, fc) == [raised |-> TRUE, out |-> <<>>, files |-> f, vm |-> v,
                         focused |-> fc]

Signature(tool) ==
    IF tool = "read_file"
    THEN [req |-> {"file_path"}, opt |-> {"start_line", "end_line"}]
    ELSE IF tool = "write_file"
    THEN [req |-> {"file_path", "content"}, opt |-> {}]
    ELSE IF tool = "edit_file"
    THEN [req |-> {"file_path", "target", "replacement"}, opt |-> {}]
    ELSE IF tool = "patch_file"
    THEN [req |-> {"file_path"},
          opt |-> {"operation", "content", "marker", "line", "start_line", "end_line"}]
    ELSE IF tool = "list_dir" THEN [req |-> {"dir_path"}, opt |-> {}]
    ELSE IF tool = "search_files"
    THEN [req |-> {"dir_path", "search_term"}, opt |-> {}]
    ELSE IF tool = "run_command"
    THEN [req |-> {"command"}, opt |-> {"timeout", "interactive"}]
    ELSE [req |-> {"file_path"}, opt |-> {}]

PatchKwargs(mem) ==
    [k \in KeysOf(mem) \ {"file_path"} |->
        IF k \in {"line", "start_line", "end_line"} THEN NumOf(Lookup(mem, k))
        ELSE IF k = "operation" THEN ToolWord(Lookup(mem, k))
        ELSE StrOf(Lookup(mem, k))]

\* the keyword arguments as the tool receives them
Kwargs(mem) ==
    [file_path   |-> ToolWord(Lookup(mem, "file_path")),
     dir_path    |-> ToolWord(Lookup(mem, "dir_path")),
     search_term |-> StrOf(Lookup(mem, "search_term")),
     command     |-> ToolWord(Lookup(mem, "command")),
     timeout     |-> IF HasKey(mem, "timeout") THEN Lookup(mem, "timeout")[1] ELSE "300",
     start_line  |-> IF HasKey(mem, "start_line") THEN NumOf(Lookup(mem, "start_line"))
                     ELSE 1,
     end_line    |-> IF HasKey(mem, "end_line") THEN NumOf(Lookup(mem, "end_line"))
                     ELSE -1,
     content     |-> StrOf(Lookup(mem, "content")),
     target      |-> StrOf(Lookup(mem, "target")),
     replacement |-> StrOf(Lookup(mem, "replacement"))]

\* the execute method of each registered tool
Dispatch(tool, kw, rest, f, v, fc) ==
    IF tool \in {"list_dir", "search_files"}
    THEN ExecOut(IF tool = "list_dir" THEN ListDirTool(f, kw.dir_path)
                 ELSE SearchFileTool(f, kw.dir_path, kw.search_term),
                 f, v, fc)
    ELSE IF tool = "run_command"
    THEN ExecRes(RunCommandTool(f, v, kw.command, kw.timeout, "ok"), fc)
    ELSE IF kw.file_path \notin Paths
    THEN ExecOut(<<"Error:", "File", kw.file_path, "not found.">>, f, v, fc)
    ELSE IF tool = "read_file"
    THEN ExecRes(ReadFileTool(f, v, kw.file_path, kw.start_line, kw.end_line, "ok"), fc)
    ELSE IF tool = "write_file"
    THEN ExecRes(WriteFileTool(f, v, kw.file_path, kw.content, "ok"), fc)
    ELSE IF tool = "edit_file"
    THEN ExecRes(EditFileTool(f, v, kw.file_path, kw.target, kw.replacement, "ok"), fc)
    ELSE IF tool = "patch_file"
    THEN ExecRes(PatchFileTool(f, v, kw.file_path, rest, "ok"), fc)
    ELSE IF tool = "focus_file"
    THEN LET r == add_focus(f, fc, kw.file_path) IN ExecOut(r.out, f, v, r.focused)
    ELSE LET r == remove_focus(fc, kw.file_path) IN ExecOut(r.out, f, v, r.focused)

Execute(tool, args, f, v, fc) ==
    Bind(MemOf(args), LAMBDA mem :
        LET sig  == Signature(tool)
            fits == /\ IsObjVal(args)
                    /\ sig.req \subseteq KeysOf(mem)
                    /\ tool = "patch_file" \/ KeysOf(mem) \subseteq sig.req \cup sig.opt
        IN  IF ~fits THEN ExecRaised(f, v, fc)
            ELSE Bind(Kwargs(mem), LAMBDA kw :
                     Dispatch(tool, kw, PatchKwargs(mem), f, v, fc)))

\* the program state approve_tool and reject_tool work on
ProgState ==
    [status |-> status, pending |-> pending, tool_history |-> tool_history,
     memory |-> memory, files |-> files, vm |-> vm, focused |-> focused_files,
     raised |-> FALSE]

\* a variant of Executed that starts the conversation afresh
Executed_fresh(s, h, tool_name, x) ==
    [s EXCEPT !.tool_history = h,
              !.memory = << Turn("user", "tool_output", x.out) >>,
              !.files = x.files, !.vm = x.vm,
              !.focused = x.focused,
              !.pending = NoPending,
              !.status = "thinking"]

\* approve_tool once the tool has been looked up and run: the Turn it
\* appends and the finally-less epilogue (lines 398-403)
Executed(s, h, tool_name, x) ==
    LET t == IF x.raised THEN Turn("user", "fatal", <<>>)
             ELSE Turn("user", "tool_output", <<ToolWord(tool_name), "Output:">> \o x.out)
    IN  [s EXCEPT !.tool_history = h,
                  !.memory = Append(@, t),
                  !.files = x.files, !.vm = x.vm,
                  !.focused = x.focused,
                  !.pending = NoPending,
                  !.status = "thinking"]

approve_tool(s) ==
    IF ~s.pending.set THEN s
    ELSE
    Bind(<<ToolOf(s.pending), ArgsOf(s.pending)>>, LAMBDA call :
    LET tool_name == call[1]
        args      == call[2]
    IN  IF ~Serialisable(args) THEN [s EXCEPT !.raised = TRUE]
        ELSE
        Bind(Append(s.tool_history, CallId(tool_name, args)), LAMBDA h1 :
        LET h2 == IF Len(h1) > RingSize THEN Tail(h1) ELSE h1
        IN  IF ~Hashable(tool_name)
            THEN [s EXCEPT !.tool_history = h2, !.raised = TRUE]
            ELSE IF Registered(tool_name)
            THEN Bind(Execute(ToolWord(tool_name), args, s.files, s.vm, s.focused),
                      LAMBDA x : Executed(s, h2, tool_name, x))
            ELSE [s EXCEPT !.tool_history = h2,
                           !.memory = Append(@, Turn("user", "not_found", tool_name)),
                           !.pending = NoPending,
                           !.status = "thinking"]))

\* a variant of reject_tool that also empties the ring of call ids
reject_tool_forgets(s) ==
    [s EXCEPT !.pending = NoPending,
              !.memory = Append(@, Turn("user", "cancelled", <<>>)),
              !.tool_history = <<>>,
              !.status = "thinking"]

reject_tool(s) ==
    [s EXCEPT !.pending = NoPending,
              !.memory = Append(@, Turn("user", "cancelled", <<>>)),
              !.status = "thinking"]

\* loop detection at the head of each iteration of run()
Pattern1(h) ==
    Len(h) >= 3 /\ h[Len(h)] = h[Len(h) - 1] /\ h[Len(h) - 1] = h[Len(h) - 2]

FileToolMarks == { <<"read_file", ":">>, <<"patch_file", ":">>,
                   <<"edit_file", ":">>, <<"write_file", ":">> }

RECURSIVE FirstColon(_, _)
FirstColon(c, i) ==
    IF i > Len(c) THEN 0 ELSE IF c[i] = ":" THEN i ELSE FirstColon(c, i + 1)

Truthy(v) ==
    v \notin { <<>>, <<"DQ", "DQ">>, <<"0">>, <<"false">>, <<"null">>, <<"{", "}">> }

\* the file path a call id contributes to file_operations, <<>> when none
FileOpOf(c) ==
    IF ~\E m \in FileToolMarks : Contains(c, m) THEN <<>>
    ELSE Bind(json_loads(SubSeq(c, FirstColon(c, 1) + 1, Len(c))), LAMBDA args :
             IF ~args.ok \/ ~IsObjVal(args.val) THEN <<>>
             ELSE LET file_path == Lookup(args.mem, "file_path")
                  IN  IF Truthy(file_path) THEN file_path ELSE <<>>)

FileOperations(h) ==
    SelectSeq([i \in 1..6 |-> FileOpOf(h[Len(h) - 6 + i])], LAMBDA x : x # <<>>)

\* `import json` inside run() (lines 446 and 569) is reached: the ring
\* holds six calls and one of the last six names a file tool
ImportsJson(h) ==
    Len(h) >= 6 /\ \E i \in 1..6 : \E m \in FileToolMarks : Contains(h[Len(h) - 6 + i], m)

Repeated(ops) ==
    {i \in 1..Len(ops) : Cardinality({j \in 1..Len(ops) : ops[j] = ops[i]}) >= 4}

Pattern2(h) ==
    /\ Len(h) >= 6
    /\ \E ops \in {FileOperations(h)} : Len(ops) >= 5 /\ Repeated(ops) # {}

MostCommon(h) ==
    Bind(FileOperations(h), LAMBDA ops : ops[CHOOSE i \in Repeated(ops) : TRUE])

Warnings(h) ==
    (IF Pattern1(h) THEN << Turn("user", "loop_warning", h[Len(h)]) >> ELSE <<>>)
    \o (IF Pattern2(h) THEN << Turn("user", "file_warning", MostCommon(h)) >>
        ELSE <<>>)

LoopContinues(st, it) ==
    st \in {"thinking", "waiting_approval"} /\ it < MAX_ITERATIONS

\* if tool_name in self.SAFE_TOOLS
AutoApproves_all(tool_name) == TRUE
AutoApproves(tool_name) == IsStrVal(tool_name) /\ StrOf(tool_name) \in
                               {<<t>> : t \in SAFE_TOOLS}

\* the display code around the approval decision raises on arguments it
\* cannot index (an AttributeError / TypeError that leaves run()); the
\* approval panel (line 660) reads run()'s local name json, which is
\* unbound until one of the two imports inside run() has run
PreviewRaises(tool_name, args) ==
    /\ IsStrVal(tool_name) /\ ToolWord(tool_name) \in {"write_file", "edit_file"}
    /\ ~IsObjVal(args) /\ ~IsStrVal(args) /\ args[1] # "set("

StatusLineRaises(lp, tool_name, args) ==
    LET t == ToolWord(tool_name)
        k == IF t = "run_command" THEN "command"
             ELSE IF t = "list_dir" THEN "dir_path" ELSE "file_path"
        shown == IF lp = 1 THEN {"run_command"}
                 ELSE {"run_command", "write_file", "read_file", "list_dir"}
    IN  /\ t \in shown
        /\ \/ ~IsObjVal(args)
           \/ /\ lp = 2
              /\ HasKey(MemOf(args), k)
              /\ ~IsStrVal(Lookup(MemOf(args), k))

----------------------------------------------------------------------------
(* run(), step() and the operator as steps                                 *)

Stopped == {"returned", "cancelled", "interrupted", "raised"}

NoEv == [kind |-> "none", tool |-> <<>>, decision |-> "none", raised |-> FALSE,
         appended |-> 0, cleared |-> TRUE, status |-> "idle"]

Become(s) ==
    /\ status' = s.status
    /\ pending' = s.pending
    /\ tool_history' = s.tool_history
    /\ memory' = s.memory
    /\ files' = s.files
    /\ vm' = s.vm
    /\ focused_files' = s.focused

\* the model answers the first file-loop warning of the run
Heeds ==
    /\ choices = MaxChoices
    /\ pc = "step" /\ attempt = 0
    /\ memory[Len(memory)].kind = "file_warning"

\* an environment choice c out of what is offered: free while the budget
\* lasts and in answer to the first file-loop warning, otherwise the
\* repetition of the previous one
Chooses(c, previous) ==
    IF choices < MaxChoices \/ Heeds THEN choices' = choices + 1
    ELSE c = previous /\ choices' = choices

\* run(message), lines 413-418
RunBegin ==
    /\ pc = "start"
    /\ memory' = Append(memory, Turn("user", "instruction", <<message>>))
    /\ status' = "thinking"
    /\ tool_history' = <<>>
    /\ iteration' = 0
    /\ loop' = 1
    /\ json_bound' = FALSE
    /\ pc' = "head"
    /\ UNCHANGED <<pending, focused_files, message, attempt, response, messages>>
    /\ UNCHANGED <<fsvars, envvars, histvars, parsevars, shellvars, learnvars>>

\* leaving a while loop of run(): the first loop falls through to the
\* second copy of the body (lines 536-542), the second one returns
LeaveLoop ==
    /\ IF loop = 1
       THEN /\ memory' = Append(memory, Turn("user", "instruction", <<message>>))
            /\ status' = "thinking"
            /\ tool_history' = <<>>
            /\ iteration' = 0
            /\ loop' = 2
            /\ pc' = "head"
       ELSE /\ pc' = "returned"
            /\ UNCHANGED <<memory, status, tool_history, iteration, loop>>
    /\ UNCHANGED <<pending, focused_files, message, attempt, response, json_bound, messages>>
    /\ UNCHANGED <<fsvars, envvars, histvars, parsevars, shellvars, learnvars>>

NextIteration_twice(n) == n + 2
NextIteration(n) == n + 1

\* messages = [system_msg] (+ [context_msg]) + history, lines 231-241: a new
\* list, which the corrective messages of the guards are appended to
StepMessages(history, focused) ==
    <<Turn("system", "prompt", <<>>)>>
        \o (IF focused # {} THEN <<Turn("system", "context", <<>>)>> ELSE <<>>)
        \o history

\* messages.append(corrective message) of a guard, lines 270, 283 and 300:
\* the list of this step() and the Conversation Store afterwards
Corrective_aliased(ms, mem, guard) ==
    [messages |-> Append(ms, Turn("user", "corrective", <<guard>>)),
     memory   |-> Append(mem, Turn("user", "corrective", <<guard>>))]
Corrective(ms, mem, guard) ==
    [messages |-> Append(ms, Turn("user", "corrective", <<guard>>)),
     memory   |-> mem]

Guards == {"repetitive", "simulation", "mention"}

\* the loop condition, the loop detection and the entry of step()
LoopHead ==
    /\ pc = "head"
    /\ IF ~LoopContinues(status, iteration) THEN LeaveLoop
       ELSE /\ iteration' = NextIteration(iteration)
            /\ memory' = memory \o Warnings(tool_history)
            /\ json_bound' = (json_bound \/ ImportsJson(tool_history))
            /\ warned' = IF Pattern1(tool_history) THEN warned + 1 ELSE warned
            /\ nsteps' = nsteps + 1
            /\ gateway_calls' = 0
            /\ IF status = "waiting_approval"
               THEN pc' = "after" /\ response' = "None" /\ UNCHANGED <<attempt, messages>>
               ELSE /\ pc' = "step" /\ attempt' = 0 /\ UNCHANGED response
                    /\ messages' = StepMessages(memory', focused_files)
            /\ UNCHANGED <<status, pending, tool_history, focused_files, message, loop>>
            /\ UNCHANGED <<fsvars, envvars, ev, owed, parsevars, shellvars, learnvars>>

\* one attempt of step(): the Gateway call and what step() makes of it
GatewayCall ==
    /\ pc = "step"
    /\ \E a \in Attempts :
          /\ Chooses(a.reply, last_reply)
          /\ last_reply' = a.reply
          /\ pending' = IF a.verdict \in {"raise", "timeout", "repetitive"} THEN pending
                        ELSE a.pending
          /\ IF a.verdict = "accept"
             THEN /\ memory' = Append(memory, Turn("assistant", "response", <<a.reply>>))
                  /\ status' = IF a.pending.set THEN "waiting_approval" ELSE "idle"
                  /\ response' = a.reply
                  /\ pc' = "after"
                  /\ UNCHANGED attempt
                  /\ UNCHANGED messages
             ELSE /\ IF a.verdict \in Guards
                     THEN \E c \in {Corrective(messages, memory, a.verdict)} :
                             messages' = c.messages /\ memory' = c.memory
                     ELSE UNCHANGED <<messages, memory>>
                  /\ IF NextAttempt(attempt) < max_retries
                     THEN /\ attempt' = NextAttempt(attempt)
                          /\ UNCHANGED <<status, response, pc>>
                     ELSE /\ status' = "idle"
                          /\ response' = "None"
                          /\ pc' = "after"
                          /\ UNCHANGED attempt
    /\ owed' = FALSE
    /\ gateway_calls' = Min(gateway_calls + 1, max_retries + 1)
    /\ UNCHANGED <<tool_history, focused_files, message, loop, iteration, policy>>
    /\ UNCHANGED json_bound
    /\ UNCHANGED <<fsvars, nsteps, ev, warned, parsevars, shellvars, learnvars>>

\* approve_tool() called with the operator decision d ("none": auto-approved)
Approve(d, nextpc) ==
    \E a \in {approve_tool(ProgState)} :
    LET recorded == Serialisable(ArgsOf(pending))
    IN  /\ Become(a)
        /\ ev' = [kind |-> "approve", tool |-> ToolOf(pending), decision |-> d,
                  raised |-> a.raised, appended |-> Len(a.memory) - Len(memory),
                  cleared |-> ~a.pending.set, status |-> a.status]
        /\ owed' = IF recorded THEN Pattern1(a.tool_history) ELSE owed
        /\ warned' = IF recorded THEN 0 ELSE warned
        /\ pc' = IF a.raised THEN "raised" ELSE nextpc

\* which way the rest of the iteration goes after step() has returned
AfterBranch ==
    IF response # "None" /\ ResponseText(response) # <<>> /\ ~pending.set
    THEN "leave"
    ELSE IF status = "waiting_approval"
    THEN LET tool_name == ToolOf(pending)
             args      == ArgsOf(pending)
         IN  IF PreviewRaises(tool_name, args) \/ ~Hashable(tool_name) THEN "raise"
             ELSE IF AutoApproves(tool_name)
             THEN IF StatusLineRaises(loop, tool_name, args) THEN "raise"
                  ELSE "approve"
             ELSE IF loop = 1 THEN "next"
             ELSE IF ~json_bound \/ ~Serialisable(args) THEN "raise"
             ELSE "ask"
    ELSE IF loop = 2 /\ status = "idle" THEN "leave"
    ELSE "next"

\* the rest of the iteration after step() has returned
AfterStep ==
    /\ pc = "after"
    /\ \E branch \in {AfterBranch} :
          \/ branch = "leave" /\ LeaveLoop
          \/ /\ branch = "approve"
             /\ Approve("none", "head")
             /\ UNCHANGED <<message, obs, task, calls, loop, iteration, attempt, response,
                            json_bound, messages>>
             /\ UNCHANGED <<envvars, nsteps, gateway_calls, parsevars, shellvars, learnvars>>
          \/ /\ branch \in {"raise", "next", "ask"}
             /\ pc' = IF branch = "raise" THEN "raised"
                      ELSE IF branch = "ask" THEN "ask" ELSE "head"
             /\ UNCHANGED <<ctlvars, fsvars, loop, iteration, attempt, response,
                             json_bound, messages>>
             /\ UNCHANGED <<envvars, histvars, parsevars, shellvars, learnvars>>

\* the operator answers the approval prompt of the second loop
OperatorDecision ==
    /\ pc = "ask"
    /\ \E d \in {"y", "n"} :
          /\ Chooses(d, policy)
          /\ policy' = d
          /\ IF d = "y" THEN Approve("y", "head")
             ELSE /\ \E a \in {reject_tool(ProgState)} : Become(a)
                  /\ ev' = [kind |-> "reject", tool |-> ToolOf(pending),
                            decision |-> "n", raised |-> FALSE, appended |-> 1,
                            cleared |-> TRUE, status |-> "thinking"]
                  /\ pc' = "head"
                  /\ UNCHANGED <<owed, warned>>
    /\ UNCHANGED <<message, obs, task, calls, loop, iteration, attempt, response,
                            json_bound, messages>>
    /\ UNCHANGED <<last_reply, nsteps, gateway_calls, parsevars, shellvars, learnvars>>

\* KeyboardInterrupt: caught by the first loop (lines 531-535), not by
\* the second
Interrupted ==
    IF loop = 1
    THEN status' = "idle" /\ pending' = NoPending /\ pc' = "cancelled"
    ELSE pc' = "interrupted" /\ UNCHANGED <<status, pending>>

InterruptGateway ==
    /\ pc = "step"
    /\ Interrupted
    /\ UNCHANGED <<tool_history, memory, focused_files, message>>
    /\ UNCHANGED <<loop, iteration, attempt, response, json_bound, messages>>
    /\ UNCHANGED <<fsvars, envvars, histvars, parsevars, shellvars, learnvars>>

\* the interrupt arrives while the auto-approved tool executes: the call
\* is already in the ring, the tool has not changed anything yet
InterruptTool ==
    /\ pc = "after"
    /\ ~(response # "None" /\ ResponseText(response) # <<>> /\ ~pending.set)
    /\ status = "waiting_approval"
    /\ LET tool_name == ToolOf(pending)
           args      == ArgsOf(pending)
           h1        == Append(tool_history, CallId(tool_name, args))
       IN  /\ ~PreviewRaises(tool_name, args)
           /\ Hashable(tool_name) /\ AutoApproves(tool_name)
           /\ ~StatusLineRaises(loop, tool_name, args)
           /\ Serialisable(args) /\ Registered(tool_name)
           /\ ~Execute(ToolWord(tool_name), args, files, vm, focused_files).raised
           /\ tool_history' = IF Len(h1) > RingSize THEN Tail(h1) ELSE h1
    /\ Interrupted
    /\ UNCHANGED <<memory, focused_files, message>>
    /\ UNCHANGED <<loop, iteration, attempt, response, json_bound, messages>>
    /\ UNCHANGED <<fsvars, envvars, histvars, parsevars, shellvars, learnvars>>

InterruptPrompt ==
    /\ pc = "ask"
    /\ Interrupted
    /\ UNCHANGED <<tool_history, memory, focused_files, message>>
    /\ UNCHANGED <<loop, iteration, attempt, response, json_bound, messages>>
    /\ UNCHANGED <<fsvars, envvars, histvars, parsevars, shellvars, learnvars>>

Instructions == {"go"}

\* a fresh orchestrator (__init__, load_context) in a workspace holding
\* a.txt; the operator has either started through zion/cli.py (git
\* Version Store installed, task opened) or through main.py (none)
ParseIdle == sample = <<>> /\ interpreted = NoPending

CtlIdle ==
    /\ status = "idle"
    /\ pending = NoPending
    /\ tool_history = <<>>
    /\ focused_files = {}
    /\ pc = "start"
    /\ loop = 1
    /\ iteration = 0
    /\ attempt = 0
    /\ response = "None"
    /\ json_bound = FALSE
    /\ messages = <<>>
    /\ choices = 0
    /\ last_reply = "done"
    /\ nsteps = 0
    /\ gateway_calls = 0
    /\ ev = NoEv
    /\ owed = FALSE
    /\ warned = 0
    /\ shell = NoShell

RunInit ==
    /\ files = [p \in Paths |-> IF p = "a.txt" THEN FileOf(<<"foo", "NL">>) ELSE NoFile]
    /\ \/ vm = set_commit_message(VmInit("git", TRUE), "m1")
       \/ vm = VmInit("flat", FALSE)
    /\ obs = NoObs
    /\ task = NoTask
    /\ calls = 0
    /\ CtlIdle
    /\ memory = << Turn("user", "context", ListDirTool(files, ".")) >>
    /\ message \in Instructions
    /\ policy \in {"y", "n"}
    /\ ParseIdle

Init == RunInit /\ learner = NoLearner

Next ==
    \/ RunBegin
    \/ LoopHead
    \/ GatewayCall
    \/ AfterStep
    \/ OperatorDecision
    \/ InterruptGateway
    \/ InterruptTool
    \/ InterruptPrompt

Spec == Init /\ [][Next]_vars

\* the steps of the program and of the parties it waits for (the Gateway,
\* the tools, the operator at the prompt); an interrupt is never owed
Progress ==
    \/ RunBegin
    \/ LoopHead
    \/ GatewayCall
    \/ AfterStep
    \/ OperatorDecision

\* every call the loop makes returns
FairSpec == Spec /\ WF_vars(Progress)

----------------------------------------------------------------------------
(* LearningOrchestrator.run around AgentOrchestrator.run: the learner is   *)
(* absent (enable_learning off or its construction failed), works, or      *)
(* raises in one of adapt, observe, learn_step                             *)

LearnEvery == 30     \* observations in the buffer that trigger learn_step

LearnerModes == {"absent", "works", "adapt_raises", "observe_raises",
                 "learn_step_raises"}

\* _create_observation: sizes read from the wrapped orchestrator
CreateObservation ==
    [set |-> TRUE, context_size |-> Len(memory),
     context_file_count |-> Cardinality(focused_files),
     completed |-> FALSE, plan_step_count |-> 0, errors |-> FALSE]

\* _populate_observation_outcomes: outcomes read from the wrapped orchestrator
PopulateObservation(o) ==
    [o EXCEPT !.completed = (status = "idle"),
              !.plan_step_count = Len(tool_history)]

\* what AgentOrchestrator.run(message) hands to its caller
RunResult ==
    IF pc \in {"returned", "cancelled"} THEN "None"
    ELSE IF pc = "interrupted" THEN "KeyboardInterrupt"
    ELSE IF pc = "raised" THEN "Exception" ELSE "pending"

LearnInit ==
    /\ RunInit
    /\ \E m \in LearnerModes, b \in {0, LearnEvery - 1} :
          /\ (m \in {"absent", "adapt_raises"} => b = 0)
          /\ (m \in {"observe_raises", "learn_step_raises"} => b = LearnEvery - 1)
          /\ learner = [NoLearner EXCEPT !.mode = m, !.buffer = b]

\* run(), lines 174-189: adapt (a raise is swallowed) and the observation
LearnerBefore ==
    /\ learner.mode # "none" /\ learner.phase = "idle"
    /\ pc = "start"
    /\ learner' = [learner EXCEPT
                     !.phase = "running",
                     !.observation = IF learner.mode = "absent" THEN @
                                     ELSE CreateObservation]
    /\ UNCHANGED <<fsvars, ctlvars, runvars, envvars, histvars, parsevars,
                   shellvars>>

\* run(), lines 201-214: orchestrator.run has returned; populate, observe
\* and learn_step sit in one try block whose except clause passes
LearnerAfter ==
    /\ learner.phase = "running"
    /\ RunResult = "None"
    /\ \E populate_raises \in BOOLEAN :
          learner' =
             IF learner.mode = "absent" \/ populate_raises THEN
                 [learner EXCEPT !.phase = "done", !.result = RunResult]
             ELSE IF learner.mode = "observe_raises" THEN
                 [learner EXCEPT !.phase = "done", !.result = RunResult,
                                 !.observation = PopulateObservation(@)]
             ELSE [learner EXCEPT
                     !.phase = "done", !.result = RunResult,
                     !.observation = PopulateObservation(@),
                     !.buffer = Min(@ + 1, LearnEvery),
                     !.learned = @ \/ (learner.buffer + 1 >= LearnEvery
                                         /\ learner.mode # "learn_step_raises")]
    /\ UNCHANGED <<fsvars, ctlvars, runvars, envvars, histvars, parsevars,
                   shellvars>>

\* a wrapper that swallows what orchestrator.run raised and returns None
LearnerRaise_swallows ==
    /\ learner.phase = "running"
    /\ RunResult \in {"KeyboardInterrupt", "Exception"}
    /\ learner' = [learner EXCEPT !.phase = "done", !.result = "None"]
    /\ UNCHANGED <<fsvars, ctlvars, runvars, envvars, histvars, parsevars,
                   shellvars>>

\* run(), lines 192-199: orchestrator.run raised; an Exception is noted in
\* the observation and raised again, a KeyboardInterrupt passes through
LearnerRaise ==
    /\ learner.phase = "running"
    /\ RunResult \in {"KeyboardInterrupt", "Exception"}
    /\ learner' = [learner EXCEPT
                     !.phase = "done", !.result = RunResult,
                     !.observation =
                         IF RunResult = "Exception" /\ learner.observation.set
                         THEN [@ EXCEPT !.errors = TRUE] ELSE @]
    /\ UNCHANGED <<fsvars, ctlvars, runvars, envvars, histvars, parsevars,
                   shellvars>>

\* the wrapped orchestrator.run(message), line 193
LearnerRun == learner.phase = "running" /\ Next

LearnNext == LearnerBefore \/ LearnerRun \/ LearnerAfter \/ LearnerRaise

SpecLearn == LearnInit /\ [][LearnNext]_vars

----------------------------------------------------------------------------
(* parse_response on its own: a text built around one valid invocation     *)

SamplePrefixes ==
    { <<>>,
      <<"Sure.", "NL">>,
      <<"Use", "SP", "{", "}", "SP", "now", ":", "NL">>,
      <<"Note", ":", "SP", "DQ", "DQ", "DQ", "x", "DQ", "DQ", "DQ", "NL">>,
      <<"Format", "SP", "{", "DQ", "tool", "DQ", ":", "SP", "name", "}", "NL">> }

SampleObjects ==
    { Invocation(Str("read_file"), ArgObj("file_path", Str("a.txt"))),
      Invocation(Str("deploy"), <<"{", "}">>),
      Invocation(Str("write_file"),
          <<"{">> \o Str("file_path") \o <<":">> \o Str("d/b.txt") \o <<",">>
          \o Str("content") \o <<":", "DQ", "a", "}", "BS", "DQ", "b", "BS", "n", "DQ", "}">>),
      <<"{", "NL", "SP">> \o Str("tool") \o <<"SP", ":">> \o Str("run_command")
          \o <<",", "NL", "SP">> \o Str("args") \o <<":", "{">> \o Str("command")
          \o <<":">> \o Str("true") \o <<",">> \o Str("interactive")
          \o <<":", "true", "}", "NL", "}">> }

SampleSuffixes == { <<>>, <<"NL", "Done.">>, <<"SP", "}">> }

SampleWraps == {"bare", "fence", "fence_json"}

Samples == [pre : SamplePrefixes, obj : SampleObjects, post : SampleSuffixes,
            wrap : SampleWraps]

SampleText(x) ==
    x.pre
    \o (IF x.wrap = "bare" THEN x.obj
        ELSE IF x.wrap = "fence" THEN <<"FENCE", "NL">> \o x.obj \o <<"NL", "FENCE">>
        ELSE <<"FENCE", "json", "NL">> \o x.obj \o <<"NL", "FENCE">>)
    \o x.post

ParseInit ==
    /\ sample \in Samples
    /\ interpreted = NoPending
    /\ files = [p \in Paths |-> NoFile]
    /\ vm = VmInit("flat", FALSE)
    /\ obs = NoObs
    /\ task = NoTask
    /\ calls = 0
    /\ CtlIdle
    /\ learner = NoLearner
    /\ memory = <<>>
    /\ message = "go"
    /\ policy = "n"

ParseResponse ==
    /\ pc = "start"
    /\ interpreted' = parse_response(SampleText(sample))
    /\ pc' = "parsed"
    /\ UNCHANGED <<sample, fsvars, ctlvars, envvars, histvars, shellvars, learnvars>>
    /\ UNCHANGED <<loop, iteration, attempt, response, json_bound, messages>>

SpecParse == ParseInit /\ [][ParseResponse]_vars

----------------------------------------------------------------------------
(* parse_response on a text with up to two candidate objects, each bare or *)
(* fenced, the first one well-formed or malformed, written with double or  *)
(* with single quotes                                                      *)

\* written without blanks
Compact(tool, args) ==
    <<"{">> \o Str("tool") \o <<":">> \o Str(tool) \o <<",">> \o Str("args")
        \o <<":">> \o args \o <<"}">>

CandRead == Compact("read_file", <<"{">> \o Str("file_path") \o <<":">>
                                     \o Str("a.txt") \o <<"}">>)
CandList == Compact("list_dir", <<"{", "}">>)
WellFormed == {CandRead, CandList}

\* a missing value, an object cut off, unquoted words, a missing colon
Malformed ==
    { <<"{">> \o Str("tool") \o <<":">> \o Str("read_file") \o <<",">>
          \o Str("args") \o <<":", "}">>,
      <<"{">> \o Str("tool") \o <<":">> \o Str("read_file") \o <<",">>
          \o Str("args") \o <<":", "{">>,
      <<"{", "tool", ":", "SP", "read_file", "}">>,
      <<"{">> \o Str("tool") \o <<"SP">> \o Str("read_file") \o <<"}">> }

Candidates ==
    [pre : {<<>>, <<"Sure.", "NL">>},
     first : {<<>>} \cup Malformed \cup WellFormed, fwrap : {"bare", "fence"},
     second : WellFormed, swrap : {"bare", "fence"},
     quote : {"DQ", "SQ"}]

Wrapped(o, wrap) ==
    IF o = <<>> THEN <<>>
    ELSE IF wrap = "bare" THEN o \o <<"NL">>
    ELSE <<"FENCE", "json", "NL">> \o o \o <<"NL", "FENCE", "NL">>

\* the text with every double quote written as a single quote
SingleQuoted(t) == [i \in 1..Len(t) |-> IF t[i] = "DQ" THEN "SQ" ELSE t[i]]

CandidateText(x) ==
    LET t == x.pre \o Wrapped(x.first, x.fwrap) \o Wrapped(x.second, x.swrap)
    IN  IF x.quote = "SQ" THEN SingleQuoted(t) ELSE t

CandInit ==
    /\ sample \in Candidates
    /\ interpreted = NoPending
    /\ files = [p \in Paths |-> NoFile]
    /\ vm = VmInit("flat", FALSE)
    /\ obs = NoObs
    /\ task = NoTask
    /\ calls = 0
    /\ CtlIdle
    /\ learner = NoLearner
    /\ memory = <<>>
    /\ message = "go"
    /\ policy = "n"

ParseCandidates ==
    /\ pc = "start"
    /\ interpreted' = parse_response(CandidateText(sample))
    /\ pc' = "parsed"
    /\ UNCHANGED <<sample, fsvars, ctlvars, envvars, histvars, shellvars, learnvars>>
    /\ UNCHANGED <<loop, iteration, attempt, response, json_bound, messages>>

SpecCandidates == CandInit /\ [][ParseCandidates]_vars

----------------------------------------------------------------------------
(* parse_response on an invocation with a triple-quoted argument           *)

MaxContentLen == 2   \* longest triple-quoted content explored, in tokens

ContentToks == {"x", "SP", "NL", "CR", "TAB", "BS", "DQ", "n", "}"}

TripleContents == SeqsUpTo(ContentToks, MaxContentLen)

\* {"tool": "write_file", "args": {"file_path": "d/b.txt", "content": """c"""}}
TripleObject(c) ==
    Invocation(Str("write_file"),
        <<"{">> \o Str("file_path") \o <<":", "SP">> \o Str("d/b.txt") \o <<",", "SP">>
        \o Str("content") \o <<":", "SP", "DQ", "DQ", "DQ">> \o c
        \o <<"DQ", "DQ", "DQ", "}">>)

TripleSamples ==
    {[pre |-> <<>>, obj |-> TripleObject(c), post |-> <<>>, wrap |-> w, content |-> c] :
        c \in TripleContents, w \in SampleWraps}

TripleInit ==
    /\ sample \in TripleSamples
    /\ interpreted = NoPending
    /\ files = [p \in Paths |-> NoFile]
    /\ vm = VmInit("flat", FALSE)
    /\ obs = NoObs
    /\ task = NoTask
    /\ calls = 0
    /\ CtlIdle
    /\ learner = NoLearner
    /\ memory = <<>>
    /\ message = "go"
    /\ policy = "n"

SpecTriple == TripleInit /\ [][ParseResponse]_vars

----------------------------------------------------------------------------
(* Claims on the file tools and the Version Store                          *)

MutatingTools == {"write_file", "edit_file", "patch_file"}

\* C1: whenever write, edit or patch overwrites a file that already
\* existed, the Version Store holds that file's pre-mutation content,
\* on every path through the three tools, whatever backup_file returns.
C1_BackupBeforeOverwrite ==
    (obs.tool \in MutatingTools /\ obs.wrote /\ obs.pre.ex)
        => StoreHolds(vm, obs.path, obs.pre.data)

\* C2: after set_commit_message opens a task and write/edit/patch calls,
\* each with its backup taken, modify pre-existing files, undo_task()
\* leaves every one of those files with the content it had when the task
\* began, with either backend.
C2_UndoRestoresTask ==
    (obs.tool = "undo_task" /\ task.undone /\ task.backed)
        => \A p \in task.touched :
              task.start[p].ex => files[p] = task.start[p]

\* the same statement for the flat-file backend alone
C2_FlatUndoRestoresTask == vm.backend = "flat" => C2_UndoRestoresTask

\* C7: Every failure of an action is returned as a string beginning with
\* Error: or VIOLATION:, and no successful result begins with either: the
\* failure flag approve_tool computes is true exactly for failed actions.
C7_MarkerIffFailed ==
    obs.tool \in ToolNames => (is_actual_error(obs.out) <=> obs.failed)

----------------------------------------------------------------------------
(* Claims on the control loop                                               *)

\* C3: One call of run(instruction) performs at most 30 loop iterations in
\* total, hence at most 30 calls of step(), whatever the model returns.
C3_AtMostThirtySteps == nsteps <= MAX_ITERATIONS

C5_InterruptEndsIdle ==
    pc \in {"cancelled", "interrupted"} => (status = "idle" /\ ~pending.set)

ToolIsSafe(v) == IsStrVal(v) /\ ToolWord(v) \in SAFE_TOOLS

\* C6: An invocation is executed without an operator decision only if its
\* tool is in SAFE_TOOLS; an invocation of any other tool is executed only
\* after an explicit accept, and never after a reject.
C6_OnlySafeUnasked ==
    /\ (ev.kind = "approve" /\ ev.decision = "none") => ToolIsSafe(ev.tool)
    /\ (ev.kind = "approve" /\ ~ToolIsSafe(ev.tool)) => ev.decision = "y"
    /\ ev.decision = "n" => ev.kind = "reject"

\* an invocation of a tool outside SAFE_TOOLS that the operator accepted
C6_Witness == ev.kind = "approve" /\ ev.decision = "y" /\ ~ToolIsSafe(ev.tool)

\* C8: approve_tool with a pending invocation never lets an exception
\* escape: exactly one Turn is appended, the pending invocation is cleared
\* and status becomes thinking.
C8_ApproveToolTotal ==
    ev.kind = "approve" =>
        /\ ~ev.raised
        /\ ev.appended = 1
        /\ ev.cleared
        /\ ev.status = "thinking"

\* C9: Whenever the three most recent CallRecords are identical, exactly
\* one corrective Turn is appended between the execution of the third call
\* and the next Gateway call: never more than one, and one by the time the
\* Gateway is called.
C9_OneCorrectiveTurn ==
    owed => (warned <= 1 /\ (pc = "step" => warned = 1))

----------------------------------------------------------------------------
(* Claim on the Response Interpreter                                        *)

\* C10: For any text containing a syntactically valid tool/args JSON
\* object, bare, wrapped in prose or inside a fenced block, parse_response
\* sets the pending invocation to exactly that tool and those args.
C10_ExtractsInvocation ==
    pc = "parsed" =>
        LET want == json_loads(sample.obj)
        IN  /\ interpreted.set
            /\ ToolOf(interpreted) = Lookup(want.mem, "tool")
            /\ json_dumps(ArgsOf(interpreted)) = json_dumps(Lookup(want.mem, "args"))

\* C11: for an invocation whose string argument is written as a
\* triple-quoted value, parse_response succeeds and the extracted argument
\* equals the content between the triple quotes, token for token.
C11_TripleQuoteRoundTrip ==
    (pc = "parsed" /\ "content" \in DOMAIN sample) =>
        /\ interpreted.set
        /\ ToolOf(interpreted) = Str("write_file")
        /\ StrOf(Lookup(MemOf(ArgsOf(interpreted)), "content")) = sample.content

\* the positions of s at which t occurs
Occurrences(s, t) == {i \in 1..Len(s) : MatchAt(s, t, i)}

\* C12: edit returns an error and leaves the file unchanged whenever
\* target is empty, does not occur in the file, or occurs more than once;
\* it changes the file only when target occurs exactly once.
C12_EditOnlyUniqueTarget ==
    (obs.tool = "edit_file" /\ obs.pre.ex) =>
        LET occ == Cardinality(Occurrences(obs.pre.data, obs.args.target))
        IN  /\ (obs.args.target = <<>> \/ occ # 1)
                  => (obs.failed /\ files[obs.path] = obs.pre)
            /\ files[obs.path] # obs.pre => occ = 1

\* C13: write(path, content) on a path that does not exist, a bare file
\* name included, with content that passes the quality check, reports
\* "created", leaves the file equal to content and adds no BackupEntry.
C13_WriteCreatesNewFile ==
    (/\ obs.tool = "write_file" /\ ~obs.pre.ex /\ obs.io = "ok"
     /\ obs.args.content # <<>> /\ ~IsPlaceholder(obs.args.content))
        => /\ obs.out = <<"Successfully", "created", obs.path>>
           /\ files[obs.path] = FileOf(obs.args.content)
           /\ Recorded(vm) = obs.recorded

\* the text of a line, its newline dropped
LineText(l) == IF EndsWithNL(l) THEN SubSeq(l, 1, Len(l) - 1) ELSE l

\* C14: patch_file insert_at_line with line k and a single-line content X on
\* an n-line file leaves n+1 lines: line p = clamp(k, 1, n+1) is X, the lines
\* before p are the original ones, the original lines from p on follow X, and
\* the result reports n and n+1 lines
C14_InsertAtLine ==
    (/\ obs.tool = "patch_file" /\ obs.pre.ex /\ obs.io = "ok"
     /\ obs.args.operation = "insert_at_line") =>
        LET old == ReadLines(obs.pre.data)
            new == ReadLines(files[obs.path].data)
            n   == Len(old)
            k   == obs.args.line
            p   == IF k < 1 THEN 1 ELSE IF k > n + 1 THEN n + 1 ELSE k
        IN  /\ Len(new) = n + 1
            /\ LineText(new[p]) = LineText(obs.args.content)
            /\ \A i \in 1..(p - 1) : LineText(new[i]) = LineText(old[i])
            /\ \A i \in p..n : LineText(new[i + 1]) = LineText(old[i])
            /\ obs.out = <<"Success:", "Inserted at line", "was", NumStr(n),
                           "now", NumStr(n + 1)>>

\* C15: when the timeout has elapsed and the command's process has not
\* exited, run_command returns a result that starts with Error: and reports
\* the timeout, and the process is no longer running at that return, also
\* when it ignores SIGTERM
C15_TimeoutKillsProcess ==
    (shell.pc = "done" /\ shell.timed_out) =>
        /\ shell.result[1] = "Error:"
        /\ shell.result[2] = "Command timed out after"
        /\ shell.proc # "running"

\* C16: backup_file(path) called twice with no change to path in between
\* returns both times a reference that restores the content path had at the
\* time of the calls
C16_BackupIdempotent ==
    (obs.tool = "backup_file" /\ obs.args.twice /\ obs.pre.ex) =>
        /\ obs.args.prev # 0
        /\ obs.args.ref # 0
        /\ RefContent(vm, obs.args.prev, obs.path) = obs.pre
        /\ RefContent(vm, obs.args.ref, obs.path) = obs.pre

\* C17: restore_file(index) with the index of an entry (0..N-1, or -1 for
\* the latest) writes that entry's recorded content to its file and returns
\* true; with any other index it returns false and changes no file
C17_RestoreByIndex ==
    obs.tool = "restore_file" =>
        LET n     == Len(obs.args.ledger)
            index == obs.args.index
            pos   == IF index = 0 - 1 THEN n ELSE index + 1
        IN  IF pos \in 1..n
            THEN /\ ~obs.failed
                 /\ obs.args.ledger[pos].file_path \in Paths =>
                       files[obs.args.ledger[pos].file_path]
                           = obs.args.ledger[pos].content
            ELSE obs.failed /\ files = obs.args.before

\* C18: the index show_history displays for an entry is the index by which
\* restore_file, show_backup and show_diff resolve that same entry, whatever
\* backups were added, however long the ledger, and across a restart
C18_StableIndex ==
    vm.installed =>
        \A k \in 1..Len(show_history(vm)) :
            /\ RestoreResolves(vm, show_history(vm)[k].id) = show_history(vm)[k].key
            /\ show_backup(vm, show_history(vm)[k].id) = show_history(vm)[k].key

\* C19: when the last attempt of a step() fails, status becomes idle and one
\* Turn, the recoverable error, is appended to the conversation
C19_ExhaustedStepAppendsTurn ==
    [][(pc = "step" /\ pc' = "after" /\ response' = "None") =>
          /\ status' = "idle"
          /\ Len(memory') = Len(memory) + 1
          /\ memory'[Len(memory')].role # "assistant"]_vars

\* C20: an invocation made pending during run() is consumed by approve_tool
\* or reject_tool before the next Gateway call: no Gateway call is made
\* while an invocation is pending, and apart from a keyboard interrupt
\* nothing but approve_tool and reject_tool takes a pending invocation away
C20_PendingConsumedOnce ==
    [][/\ (pc = "step" /\ pc' \in {"step", "after"}) => ~pending.set
       /\ (pending.set /\ pending' # pending /\ pc' \notin {"cancelled", "interrupted"})
             => (pc \in {"after", "ask"} /\ pc' \in {"head", "raised"})]_vars

IsPrefix(s, t) == Len(s) <= Len(t) /\ SubSeq(t, 1, Len(s)) = s

\* C21: between resets the conversation only grows: every step of run(),
\* step(), approve_tool, reject_tool and the loop interventions leaves the
\* previous Turns as an unchanged prefix of the new conversation
C21_ConversationOnlyGrows == [][IsPrefix(memory, memory')]_vars

\* the conversation holds an instruction, a response, a tool output and a
\* corrective Turn of the loop detection
C21_Witness ==
    /\ \E i \in 1..Len(memory) : memory[i].kind = "tool_output"
    /\ \E i \in 1..Len(memory) : memory[i].kind \in {"loop_warning", "file_warning"}
    /\ \E i \in 1..Len(memory) : memory[i].kind = "response"

\* C22: reject_tool with a pending invocation appends exactly one
\* cancellation Turn, clears the pending invocation and sets status
\* thinking; files, the Version Store, the focus set and the ring of call
\* ids stay as they were
C22_RejectOnlyCancels ==
    [][(pc = "ask" /\ pc' = "head" /\ policy' = "n" /\ pending.set) =>
          /\ memory' = Append(memory, Turn("user", "cancelled", <<>>))
          /\ ~pending'.set
          /\ status' = "thinking"
          /\ files' = files /\ vm' = vm
          /\ focused_files' = focused_files
          /\ tool_history' = tool_history]_vars

\* reject_tool has just cancelled an invocation while the ring held calls
C22_Witness ==
    /\ ev.kind = "reject" /\ pc = "head" /\ policy = "n"
    /\ tool_history # <<>>
    /\ memory[Len(memory)].kind = "cancelled"


\* lines first..last of c, 1-based and inclusive, last = -1 or beyond the
\* last line meaning the last line
LinesOf(c, first, last) ==
    LET ls == ReadLines(c)
        n  == Len(ls)
        e  == IF last = 0 - 1 \/ last > n THEN n ELSE last
    IN  JoinLines([k \in 1..(IF e >= first THEN e - first + 1 ELSE 0) |->
                      ls[first + k - 1]])

\* C23: after a successful write(path, c), read(path) returns c and
\* read(path, start, end) returns lines start..end of c inclusive (1-based,
\* end = -1 or beyond the last line meaning up to the last line); read of a
\* missing file returns a marker error and raises nothing.
C23_ReadReturnsWritten ==
    obs.tool = "read_file" =>
        /\ (~obs.pre.ex =>
               /\ obs.failed
               /\ obs.out = <<"Error:", "File", obs.path, "not found.">>)
        /\ (obs.args.after_write /\ obs.args.start_line >= 1
                /\ obs.args.end_line >= 0 - 1 =>
               /\ ~obs.failed
               /\ obs.out = LinesOf(obs.args.written, obs.args.start_line,
                                    obs.args.end_line)
               /\ (obs.args.start_line = 1 /\ obs.args.end_line = 0 - 1 =>
                      obs.out = obs.args.written))

\* C24: when target occurs exactly once in an existing file, edit returns
\* a success result and the file becomes the old content with that single
\* occurrence replaced by replacement, every other character unchanged.
C24_EditReplacesSingleOccurrence ==
    (/\ obs.tool = "edit_file" /\ obs.pre.ex /\ obs.io = "ok"
     /\ obs.args.target # <<>>
     /\ Cardinality(Occurrences(obs.pre.data, obs.args.target)) = 1) =>
        /\ ~obs.failed
        /\ obs.out = <<"Successfully", "edited", obs.path>>
        /\ \E i \in Occurrences(obs.pre.data, obs.args.target) :
              files[obs.path].data =
                  SubSeq(obs.pre.data, 1, i - 1) \o obs.args.replacement
                  \o SubSeq(obs.pre.data, i + Len(obs.args.target),
                            Len(obs.pre.data))

\* C25: a successful write reports "created" exactly when the file did not
\* exist before the call and "updated" exactly when it did, whatever the old
\* content was, an empty file included.
C25_CreatedIffNew ==
    (obs.tool = "write_file" /\ ~obs.failed) =>
        /\ obs.out[1] = "Successfully"
        /\ (obs.out[2] = "created" <=> ~obs.pre.ex)
        /\ (obs.out[2] = "updated" <=> obs.pre.ex)

\* C26: LearningOrchestrator.run(message) leaves the wrapped orchestrator
\* in the same state (conversation, status, pending invocation, CallRecord
\* ring, files) and returns the same result as AgentOrchestrator.run(message)
\* alone, whether the learner is absent, works, or raises in adapt, observe
\* or learn_step: every step of the wrapper outside the wrapped call leaves
\* that state unchanged, every step inside it is a step of run() alone, and
\* the wrapper hands on what run() returned or raised.
C26_LearnerTransparent ==
    /\ [][learner' # learner =>
            /\ memory' = memory /\ status' = status /\ pending' = pending
            /\ tool_history' = tool_history /\ files' = files
            /\ pc' = pc]_vars
    /\ [][learner' = learner => learner.phase = "running"]_vars
    /\ [](learner.phase = "done" => learner.result = RunResult)
    /\ [](learner.phase = "idle" => pc = "start")

\* C26, witness: a wrapped run that executed a tool has returned, the
\* learner having raised in learn_step
C26_Witness ==
    /\ learner.phase = "done" /\ learner.mode = "learn_step_raises"
    /\ learner.result = "None" /\ ~learner.learned
    /\ learner.observation.set /\ learner.observation.plan_step_count > 0
    /\ \E i \in 1..Len(memory) : memory[i].kind = "tool_output"

\* the first well-formed candidate of a sample, as a pending invocation
FirstWellFormed(x) ==
    PendingOf(json_loads(IF x.first \in WellFormed THEN x.first ELSE x.second))

\* C27: when a response holds several candidate invocation objects,
\* parse_response yields the first one that is well-formed; a malformed
\* earlier candidate, fenced or bare, does not prevent a later well-formed
\* candidate from being extracted.
C27_FirstWellFormedWins ==
    (pc = "parsed" /\ sample.quote = "DQ" /\ sample.first # <<>>) =>
        interpreted = FirstWellFormed(sample)

\* C28: parse_response extracts the same tool and args from an invocation
\* object written with single-quoted keys and strings as from its
\* double-quoted JSON form.
C28_SingleQuotedSame ==
    (pc = "parsed" /\ sample.quote = "SQ" /\ sample.first = <<>>) =>
        /\ interpreted = parse_response(CandidateText([sample EXCEPT !.quote = "DQ"]))
        /\ interpreted = FirstWellFormed(sample)

\* C29: one call of step() makes at most 3 Gateway calls: every aborted
\* attempt (Gateway exception, timeout phrase, repetition, simulation or
\* mention guard firing) uses up one of the 3 attempts, and none of them
\* advances run()'s iteration counter, which grows by exactly one per
\* step() call.
C29_ThreeAttemptsOneIteration ==
    /\ [](gateway_calls <= max_retries)
    /\ [](pc = "step" => attempt = gateway_calls /\ attempt < max_retries)
    /\ [][gateway_calls' # gateway_calls /\ gateway_calls' # 0 =>
            /\ gateway_calls' = gateway_calls + 1
            /\ iteration' = iteration /\ nsteps' = nsteps
            /\ (pc' = "step" => attempt' = attempt + 1)]_vars
    /\ [][nsteps' # nsteps =>
            nsteps' = nsteps + 1 /\ iteration' = iteration + 1]_vars
    /\ [][iteration' # iteration =>
            \/ iteration' = iteration + 1 /\ nsteps' = nsteps + 1
            \/ iteration' = 0 /\ nsteps' = nsteps]_vars

\* C29, witness: a step() whose three attempts were all aborted has
\* returned in the second iteration of the loop
C29_Witness ==
    /\ pc = "after" /\ gateway_calls = max_retries /\ response = "None"
    /\ status = "idle" /\ iteration = 2

\* the file path a CallRecord names when it is a read, write, edit or patch
\* operation, <<>> otherwise
OperatedPath(c) ==
    LET k == FirstColon(c, 1)
    IN  IF k = 0 \/ SubSeq(c, 1, k - 1) \notin
                      {<<"read_file">>, <<"write_file">>, <<"edit_file">>, <<"patch_file">>}
        THEN <<>>
        ELSE Bind(json_loads(SubSeq(c, k + 1, Len(c))), LAMBDA a :
                 IF a.ok /\ HasKey(a.mem, "file_path")
                 THEN Lookup(a.mem, "file_path") ELSE <<>>)

\* the paths at least four of the six most recent CallRecords operate on
FourOfSix(h) ==
    IF Len(h) < 6 THEN {}
    ELSE LET paths == [i \in 1..6 |-> OperatedPath(h[Len(h) - 6 + i])]
         IN  {paths[i] : i \in {i \in 1..6 :
                 /\ paths[i] # <<>>
                 /\ Cardinality({j \in 1..6 : paths[j] = paths[i]}) >= 4}}

\* C30: at the start of a loop iteration, if at least four of the six most
\* recent CallRecords are read/write/edit/patch operations on one and the
\* same file path, a corrective Turn naming that file is appended before
\* the next Gateway call, whatever the other two calls are; the
\* intervention changes the conversation only, not status, pending
\* invocation or the CallRecord ring.
C30_FileLoopIntervention ==
    [][(pc = "head" /\ iteration' = iteration + 1
          /\ FourOfSix(tool_history) # {}) =>
            /\ Len(memory') > Len(memory)
            /\ memory'[Len(memory')].kind = "file_warning"
            /\ memory'[Len(memory')].text \in FourOfSix(tool_history)
            /\ status' = status /\ pending' = pending
            /\ tool_history' = tool_history]_vars

\* approve_tool is called on the pending invocation: auto-approved after
\* step() or approved by the operator at the prompt
ApproveCalled ==
    /\ pending.set
    /\ pc' \in {"head", "raised"}
    /\ \/ pc = "after" /\ AfterBranch = "approve"
       \/ pc = "ask" /\ policy' = "y"

\* C31: the CallRecord ring never holds more than 10 records: after any
\* sequence of approve_tool calls it holds the most recent min(k, 10) calls
\* in call order, the oldest being evicted first, and a record is added for
\* every approved invocation, those of unknown tools included.
C31_RingOfTen ==
    /\ [](Len(tool_history) <= RingSize)
    /\ [][ApproveCalled =>
            LET h  == tool_history
                h1 == tool_history'
                k  == Min(Len(h) + 1, RingSize)
            IN  /\ Len(h1) = k
                /\ \A i \in 1..(k - 1) : h1[i] = h[i + Len(h) + 1 - k]
                /\ h1[k] = CallId(ToolOf(pending), ArgsOf(pending))]_vars
    /\ [][tool_history' # tool_history =>
            \/ pending.set /\ pc \in {"after", "ask"}
            \/ tool_history' = <<>>]_vars

----------------------------------------------------------------------------
(* The content quality guard: write_file and patch_file on short contents  *)

MaxGuardLines == 3   \* most lines of a content given to write_file or patch_file
MaxGuardCalls == 1   \* tool calls made on one workspace

GuardLines == { <<"#">>, <<"updated">>, <<"x">>, <<"SP">> }

\* the lines joined by newlines, none after the last
RECURSIVE JoinNL(_)
JoinNL(ls) ==
    IF Len(ls) = 0 THEN <<>>
    ELSE IF Len(ls) = 1 THEN ls[1]
    ELSE ls[1] \o <<"NL">> \o JoinNL(Tail(ls))

GuardData == {JoinNL(ls) : ls \in SeqsUpTo(GuardLines, MaxGuardLines) \ {<<>>}}
GuardOps == {"append", "prepend"}

GuardInit ==
    /\ files \in [Paths -> {NoFile, FileOf(<<"a", "NL">>)}]
    /\ \E b \in {"flat", "git"}, i \in BOOLEAN :
          /\ (~i => b = "flat")
          /\ vm = VmInit(b, i)
    /\ obs = NoObs
    /\ task = NoTask
    /\ calls = 0
    /\ CtlAtRest

GuardWrite ==
    \E p \in Paths, c \in GuardData :
        /\ calls < MaxGuardCalls
        /\ Apply("write_file", p, [content |-> c], "ok",
                 WriteFileTool(files, vm, p, c, "ok"))

GuardPatch ==
    \E p \in Paths, c \in GuardData, op \in GuardOps :
        /\ calls < MaxGuardCalls
        /\ Apply("patch_file", p, [operation |-> op, content |-> c], "ok",
                 PatchFileTool(files, vm, p, [operation |-> op, content |-> c], "ok"))

GuardNext == GuardWrite \/ GuardPatch

SpecGuard == GuardInit /\ [][GuardNext]_vars

\* the non-blank lines of a content, as the claim counts them
NonBlankLines(content) ==
    SelectSeq(SplitNL(content), LAMBDA l : \E i \in 1..Len(l) : l[i] \notin WS)

\* a comment line, or a line holding placeholder, updated or modified
CommentOrPlaceholder(l) ==
    \/ Strip(l)[1] \in {"<!--", "//", "#"}
    \/ \E i \in 1..Len(l) : l[i] \in {"placeholder", "updated", "modified"}

TrivialContent(content) ==
    LET ne == NonBlankLines(content)
    IN  /\ Len(ne) < 3
        /\ \A i \in 1..Len(ne) : CommentOrPlaceholder(ne[i])

\* C32: a write or patch whose content has fewer than 3 non-blank lines, each
\* a comment line or a line holding placeholder/updated/modified, is rejected
\* with a VIOLATION result, the target file is not modified and no BackupEntry
\* is created; any other content is never rejected by the guard.
C32_TrivialContentRejected ==
    (obs.tool \in {"write_file", "patch_file"}) =>
        IF TrivialContent(obs.args.content)
        THEN /\ StartsWith(obs.out, <<"VIOLATION:">>)
             /\ files[obs.path] = obs.pre
             /\ Recorded(vm) = obs.recorded
        ELSE ~StartsWith(obs.out, <<"VIOLATION:">>)

----------------------------------------------------------------------------
(* Claims about step() and the Gateway responses                           *)

\* one attempt of step() has got its response from the Gateway
GatewayAnswered == pc = "step" /\ (pc' = "after" \/ attempt' # attempt)

\* the attempt was rejected: step() goes on to its next attempt, or gives
\* up after the last one
AttemptRejected ==
    /\ memory' = memory
    /\ \/ pc' = "step" /\ attempt' = attempt + 1
       \/ pc' = "after" /\ attempt = max_retries - 1 /\ response' = "None"

\* the text holds an opening and a closing fence
HasFencedBlock(text) ==
    \E i, j \in 1..Len(text) : i < j /\ text[i] = "FENCE" /\ text[j] = "FENCE"

\* C33: whenever a Gateway response contains a fenced code block and the
\* Interpreter extracts no invocation from it, step() rejects that attempt
\* and retries; such a response is never accepted as task completion.
C33_FencedBlockRejected ==
    [][GatewayAnswered /\ last_reply' # "raise"
         /\ HasFencedBlock(ResponseText(last_reply'))
         /\ ~parse_response(ResponseText(last_reply')).set
       => AttemptRejected /\ ~(status' = "idle" /\ response' = last_reply')]_vars

----------------------------------------------------------------------------
(* patch_file replace_lines on its own: every small file and line range    *)

MaxReplaceLines == 3   \* most lines of the file replace_lines is given
MaxReplaceCalls == 1   \* replace_lines calls made on one file

ReplaceFileLines == { <<"a", "NL">>, <<"b", "NL">> }
ReplaceData ==
    {JoinLines(ls) : ls \in SeqsUpTo(ReplaceFileLines, MaxReplaceLines) \ {<<>>}}
    \cup {JoinLines(ls) \o <<"c">> : ls \in SeqsUpTo(ReplaceFileLines, MaxReplaceLines - 1)}
ReplaceBounds == (0 - 2)..(MaxReplaceLines + 2)
ReplaceContents == { <<"X">>, <<"X", "NL">> }

ReplaceInit ==
    /\ \E c \in ReplaceData :
          files = [p \in Paths |-> IF p = "a.txt" THEN FileOf(c) ELSE NoFile]
    /\ \E b \in {"flat", "git"}, i \in BOOLEAN :
          /\ (~i => b = "flat")
          /\ vm = VmInit(b, i)
    /\ obs = NoObs
    /\ task = NoTask
    /\ calls = 0
    /\ CtlAtRest

PatchReplace ==
    \E s \in ReplaceBounds, e \in ReplaceBounds, c \in ReplaceContents :
        LET a == [operation |-> "replace_lines", start_line |-> s, end_line |-> e,
                  content |-> c]
        IN  /\ calls < MaxReplaceCalls
            /\ Apply("patch_file", "a.txt", a, "ok",
                     PatchFileTool(files, vm, "a.txt", a, "ok"))

SpecReplace == ReplaceInit /\ [][PatchReplace]_vars

\* a line number clamped into 1..n
Clamp(k, n) == IF k < 1 THEN 1 ELSE IF k > n THEN n ELSE k

\* C34: for patch replace_lines with integers start <= end and single-line
\* content on an n-line file (n >= 1), the line numbers are clamped into
\* 1..n and exactly the lines of the clamped range are replaced by the
\* content: the other lines are unchanged and the new line count is n minus
\* the length of the clamped range plus 1, so it never exceeds n.
C34_ReplaceClampedRange ==
    (/\ obs.tool = "patch_file"
     /\ obs.args.operation = "replace_lines"
     /\ obs.args.start_line <= obs.args.end_line) =>
        LET old == ReadLines(obs.pre.data)
            new == ReadLines(files[obs.path].data)
            n   == Len(old)
            s   == Clamp(obs.args.start_line, n)
            e   == Clamp(obs.args.end_line, n)
        IN  /\ ~obs.failed
            /\ new = SubSeq(old, 1, s - 1) \o <<WithNL(obs.args.content)>>
                        \o SubSeq(old, e + 1, n)
            /\ Len(new) = n - (e - s + 1) + 1
            /\ Len(new) <= n

\* step() has ended or gone on to its next attempt
StepMoved == pc = "step" /\ (pc' # "step" \/ attempt' # attempt)

\* step() has accepted the response and returned it
Accepted == pc = "step" /\ pc' = "after" /\ response' # "None"

\* C35: step() changes the Conversation Store only on acceptance: it appends
\* exactly one assistant Turn when a response is accepted and nothing
\* otherwise; rejected responses and the corrective messages sent for them
\* are seen only by later attempts of the same step and are never stored.
C35_StoreOnlyOnAcceptance ==
    /\ [][StepMoved =>
            IF Accepted
            THEN memory' = Append(memory, Turn("assistant", "response", <<response'>>))
            ELSE memory' = memory]_vars
    /\ [](\A i \in 1..Len(memory) : memory[i].kind # "corrective")
    /\ [][pc = "step" /\ pc' = "step" /\ attempt' # attempt
            /\ Verdict(ResponseText(last_reply')) \in Guards
          => /\ Len(messages') = Len(messages) + 1
             /\ messages'[Len(messages')].kind = "corrective"]_vars

\* a response is accepted on the second attempt after a guard rejected the
\* first: the corrective message is in the list of this step() and the
\* store has got the accepted response alone
C35_Witness ==
    /\ pc = "after" /\ response # "None"
    /\ gateway_calls = 2
    /\ Len(messages) = Len(memory) + 1
    /\ messages[Len(messages)].kind = "corrective"
    /\ memory[Len(memory)] = Turn("assistant", "response", <<response>>)

\* a call of step(), approve_tool(), reject_tool() or run() has just
\* completed: step() has returned, the iteration has come back to the head
\* of its loop, or run() has returned
CallCompleted ==
    \/ pc \in {"after", "returned", "cancelled"}
    \/ pc = "head" /\ iteration > 0

\* C36: after every completed call of step(), approve_tool(), reject_tool(),
\* reset() or run(), an invocation is pending if and only if status is
\* waiting_approval; status idle or thinking never coexists with a stale
\* pending invocation.
C36_PendingIffWaiting ==
    CallCompleted => (pending.set <=> status = "waiting_approval")

\* the Turns of the store holding the instruction of this run()
InstructionTurns ==
    {i \in 1..Len(memory) : memory[i] = Turn("user", "instruction", <<message>>)}

\* the model has declared the task complete: a stored response of this
\* run() holds no invocation
DeclaredComplete ==
    \E i \in 1..Len(memory) :
        /\ memory[i].kind = "response"
        /\ ~parse_response(ResponseText(memory[i].text[1])).set

\* C37: one call of run(instruction) that is not interrupted appends the
\* instruction to the Conversation Store exactly once as a user Turn and
\* works through it once: after the model has declared the task complete,
\* no further Gateway call is made in that run.
C37_InstructionOnce ==
    /\ [](pc = "returned" => Cardinality(InstructionTurns) = 1)
    /\ [][GatewayAnswered => ~DeclaredComplete]_vars

----------------------------------------------------------------------------
(* Claims about failed file calls and the Version Store                    *)

\* a write, edit or patch call has just returned an error, with nothing
\* failing underneath it
MutatingCallFailed ==
    /\ calls' = calls + 1
    /\ obs'.tool \in {"write_file", "edit_file", "patch_file"}
    /\ obs'.io = "ok"
    /\ obs'.failed

\* C38: a write, edit or patch call that returns an error (empty content,
\* quality violation, missing file, bad target, unknown operation, missing
\* marker) leaves the Version Store unchanged: no BackupEntry or commit is
\* created and the current task's list of touched files is unchanged.
C38_FailedCallKeepsStore ==
    [][MutatingCallFailed =>
          /\ vm'.history = vm.history
          /\ vm'.commits = vm.commits
          /\ vm'.task_files = vm.task_files]_vars

\* the response holds a well-formed invocation of a registered tool: the
\* Interpreter extracts it, its arguments are a JSON object
WellFormedCall(text) ==
    \E p \in {parse_response(text)} :
        /\ p.set
        /\ Hashable(ToolOf(p)) /\ Registered(ToolOf(p))
        /\ Serialisable(ArgsOf(p))

\* C39: if a Gateway response is not repetitive and contains a well-formed
\* invocation of a registered tool, step() accepts it on that attempt and
\* moves to waiting_approval with that invocation pending, whatever the
\* invocation's argument names and values are (a run_command call passing a
\* timeout argument included).
C39_WellFormedCallAccepted ==
    [][GatewayAnswered /\ last_reply' # "raise"
         /\ ~IsRepetitive(ResponseText(last_reply'))
         /\ WellFormedCall(ResponseText(last_reply'))
       => /\ pc' = "after"
          /\ response' = last_reply'
          /\ status' = "waiting_approval"
          /\ pending' = parse_response(ResponseText(last_reply'))]_vars

\* C40: run_command returns every byte the process wrote to its terminal
\* before exiting (after ANSI stripping), in order, under every interleaving
\* of the process and the polling loop, a process that exits immediately
\* after writing included: no output is lost between the last read and the
\* exit check.
C40_AllOutputReturned ==
    (shell.pc = "done" /\ ~shell.timed_out /\ shell.proc = "exited") =>
        shell.result = strip_ansi_codes(shell.written)

====
